---- MODULE Spec2Model ----
(***************************************************************************)
(* ts-check: a tokenizer, an error-code table, a diagnostic-message parser *)
(* and a suggestion dispatcher for TypeScript compiler diagnostics.        *)
(*                                                                         *)
(* Texts (source files, diagnostic lines, messages) are TLA+ strings, that *)
(* is sequences of characters; SubSeq(s, i, i) is the i-th character.      *)
(* Byte offsets are kept apart from character counts: Utf8Len gives the    *)
(* number of bytes a character occupies.                                   *)
(***************************************************************************)
EXTENDS Integers, Sequences, FiniteSets, TLC

VARIABLES
    \* Tokenizer (src/src/tokenizer.rs)
    src,            \* Tokenizer.src
    position,       \* Tokenizer.position, a byte offset
    line,           \* Tokenizer.line, 1-indexed
    column,         \* Tokenizer.column, 0-indexed, in characters
    tokens,         \* the Vec<Token> that tokenize() is filling
    pc,             \* where the tokenize() loop stands
    passes,         \* number of Tokenizer::new(src).tokenize() runs started
    previous,       \* the token sequence returned by the previous run
    \* Error classification (src/src/error/codes.rs)
    code,           \* a code string, the argument of from_str / result of as_str
    variant,        \* an ErrorCode, the result of from_str / receiver of as_str
    cpc,            \* which of the two is to be converted next
    hops,           \* conversions made so far
    \* One diagnostic on its way from a line of compiler output to a report
    \* (src/src/main.rs, src/src/formatter.rs, src/src/diagnostics/suggestions.rs)
    tscLine,        \* the line of compiler output
    diskText,       \* what the file system holds under the diagnostic's path
    colorize,       \* whether the colored crate emits escape sequences
    err,            \* Option<TsError>: the result of parse
    span,           \* Option: the span fmt computes from line and column
    suggestion,     \* Option<Suggestion>: the result of the dispatcher
    report,         \* Option: what fmt hands to the report builder
    lookups,        \* the positions at which the handler has queried tokens
    underflow,      \* whether a subtraction went below zero
    dpc,            \* the step the diagnostic is at
    \* One call of a function of src/src/message_parser.rs or
    \* src/src/token_utils.rs
    callee,         \* the function called, "none" before the call
    given,          \* its arguments
    returned,       \* what it returned
    \* The line loop of parse_tsc_output (src/src/main.rs)
    lines,          \* buf.lines() collected
    index,          \* i, the 0-indexed line the loop is at
    indented_line,  \* the 0-indexed line the continuation loop is at
    parsed,         \* Option<TsError>: the diagnostic being assembled
    counter,        \* the diagnostics counted
    found_error,    \* whether a line has parsed as a diagnostic
    stdout,         \* what has been printed
    lpc             \* where the loop stands

tokVars == <<src, position, line, column, tokens, pc, passes, previous>>

codeVars == <<code, variant, cpc, hops>>

diagVars == <<tscLine, diskText, colorize, err, span, suggestion, report,
              lookups, underflow, dpc>>

fnVars == <<callee, given, returned>>

loopVars == <<lines, index, indented_line, parsed, counter, found_error, stdout, lpc>>

vars == <<tokVars, codeVars, diagVars, fnVars, loopVars>>

-----------------------------------------------------------------------------
(* Bounds *)

\* Longest source text, in characters, that the tokenizer is run on.
MaxSrcLen == 4

\* Number of times the same source text is tokenized.
MaxPasses == 2

\* Code strings "TS<n>" are taken for every n up to this one, besides the
\* codes of the tables and a few chosen ones.
MaxPlainCode == 30

\* Conversions between code strings and variants made in a row.
MaxHops == 3

\* Diagnostics are at the lines 0..MaxLine and the columns 0..MaxColumn.
MaxLine == 2
MaxColumn == 7

\* Messages given to the message parser are made of up to MaxPieces pieces.
MaxPieces == 4

\* extract_quoted_value is called with the occurrences 0..MaxOccurrence.
MaxOccurrence == 6

\* Sources given to the token utilities are made of up to MaxUtilPieces
\* pieces.
MaxUtilPieces == 3

-----------------------------------------------------------------------------
(* Strings *)

NoChar == ""

Chars(s) == { SubSeq(s, i, i) : i \in 1..Len(s) }

CharAtIdx(s, i) == IF i >= 1 /\ i <= Len(s) THEN SubSeq(s, i, i) ELSE NoChar

\* All strings over alphabet A of length exactly n / at most n.
RECURSIVE StringsOfLen(_, _)
StringsOfLen(A, n) ==
    IF n = 0 THEN {""}
    ELSE { s \o c : s \in StringsOfLen(A, n - 1), c \in A }

StringsUpTo(A, n) == UNION { StringsOfLen(A, k) : k \in 0..n }

\* A letter outside ASCII, two bytes long in UTF-8 (such as U+00E9). The
\* model checker keeps ASCII strings only, so the capital E is its name in
\* source texts; source texts hold no other capital letter.
WideLetter == "E"

\* char::len_utf8 for the characters used here.
Utf8Len(c) == IF c = WideLetter THEN 2 ELSE 1

\* str::len(): the length in bytes.
RECURSIVE ByteLen(_)
ByteLen(s) == IF s = "" THEN 0 ELSE Utf8Len(Head(s)) + ByteLen(Tail(s))

\* Number of characters of s that start before byte offset p, or -1 when p
\* is not a character boundary of s (str::get(p..) is then None).
RECURSIVE CharsBefore(_, _)
CharsBefore(s, p) ==
    IF p = 0 THEN 0
    ELSE IF s = "" \/ p < 0 THEN -1
    ELSE LET r == CharsBefore(Tail(s), p - Utf8Len(Head(s)))
         IN  IF r < 0 THEN -1 ELSE r + 1

\* self.src.get(p..).and_then(|s| s.chars().next())
CharAt(s, p) ==
    LET i == CharsBefore(s, p)
    IN  IF i < 0 THEN NoChar ELSE CharAtIdx(s, i + 1)

\* &s[a..b] for byte offsets a <= b on character boundaries.
ByteSlice(s, a, b) == SubSeq(s, CharsBefore(s, a) + 1, CharsBefore(s, b))

\* s.get(p..).map_or(false, |t| t.starts_with(prefix))
StartsWithAt(s, p, prefix) ==
    LET i == CharsBefore(s, p)
    IN  /\ i >= 0
        /\ i + Len(prefix) <= Len(s)
        /\ SubSeq(s, i + 1, i + Len(prefix)) = prefix

\* Option<T>: None is the empty sequence, Some(x) the sequence of x alone.
None == <<>>
Some(x) == <<x>>
IsSome(o) == Len(o) = 1
Unwrap(o) == o[1]
UnwrapOr(o, d) == IF IsSome(o) THEN o[1] ELSE d

Min(S) == CHOOSE x \in S : \A y \in S : x <= y
Max(S) == CHOOSE x \in S : \A y \in S : x >= y

\* The 1-based indices at which pat occurs in s.
Occurrences(s, pat) ==
    { i \in 1..(Len(s) - Len(pat) + 1) : SubSeq(s, i, i + Len(pat) - 1) = pat }

\* str::find and str::rfind as 1-based character indices, 0 for None.
Find(s, pat) == IF Occurrences(s, pat) = {} THEN 0 ELSE Min(Occurrences(s, pat))
RFind(s, pat) == IF Occurrences(s, pat) = {} THEN 0 ELSE Max(Occurrences(s, pat))

\* str::contains
Contains(s, pat) == Occurrences(s, pat) # {}

\* s from its i-th character on.
From(s, i) == SubSeq(s, i, Len(s))

\* str::split_once
SplitOnce(s, pat) ==
    LET i == Find(s, pat)
    IN  IF i = 0 THEN None
        ELSE Some(<<SubSeq(s, 1, i - 1), From(s, i + Len(pat))>>)

\* str::split(pat) collected, for a non-empty pattern.
RECURSIVE Split(_, _)
Split(s, pat) ==
    LET i == Find(s, pat)
    IN  IF i = 0 THEN <<s>>
        ELSE <<SubSeq(s, 1, i - 1)>> \o Split(From(s, i + Len(pat)), pat)

\* Iterator::nth on a collected iterator, 0-indexed.
Nth(q, n) == IF n + 1 <= Len(q) THEN Some(q[n + 1]) ELSE None

\* str::trim
RECURSIVE TrimStart(_)
TrimStart(s) ==
    IF s # "" /\ Head(s) \in {" ", "\n", "\t", "\r"} THEN TrimStart(Tail(s)) ELSE s

RECURSIVE TrimEnd(_)
TrimEnd(s) ==
    IF s # "" /\ SubSeq(s, Len(s), Len(s)) \in {" ", "\n", "\t", "\r"}
    THEN TrimEnd(SubSeq(s, 1, Len(s) - 1))
    ELSE s

Trim(s) == TrimEnd(TrimStart(s))

\* The value of a decimal digit.
DigitValue(c) == Find("0123456789", c) - 1

\* The decimal numeral of a natural number.
RECURSIVE Decimal(_)
Decimal(n) ==
    IF n < 10 THEN SubSeq("0123456789", n + 1, n + 1)
    ELSE Decimal(n \div 10) \o SubSeq("0123456789", (n % 10) + 1, (n % 10) + 1)

\* Whether a text is made of decimal digits only.
AllDigits(s) == \A i \in 1..Len(s) : SubSeq(s, i, i) \in Chars("0123456789")

\* A numeral without its leading zeros.
RECURSIVE StripZeros(_)
StripZeros(s) == IF s # "" /\ Head(s) = "0" THEN StripZeros(Tail(s)) ELSE s

\* For numerals of the same length: whether a denotes more than b.
RECURSIVE NumeralGreater(_, _)
NumeralGreater(a, b) ==
    IF a = "" THEN FALSE
    ELSE IF Head(a) # Head(b) THEN DigitValue(Head(a)) > DigitValue(Head(b))
    ELSE NumeralGreater(Tail(a), Tail(b))

\* Whether the number a numeral denotes is above the one maxNumeral denotes.
Exceeds(s, maxNumeral) ==
    \/ Len(StripZeros(s)) > Len(maxNumeral)
    \/ /\ Len(StripZeros(s)) = Len(maxNumeral)
       /\ NumeralGreater(StripZeros(s), maxNumeral)

\* The number a numeral denotes.
RECURSIVE NumeralValue(_)
NumeralValue(s) ==
    IF s = "" THEN 0
    ELSE NumeralValue(SubSeq(s, 1, Len(s) - 1)) * 10
             + DigitValue(SubSeq(s, Len(s), Len(s)))

\* The largest values of u16, u32 and usize (64 bits), as numerals: the
\* last two are beyond the integers of the model checker, so the overflow
\* check compares numerals.
U16Max == "65535"
U32Max == "4294967295"
UsizeMax == "18446744073709551615"

\* str::parse::<uN>() and uN::from_str_radix(s, 10) for the unsigned type
\* with the given largest value: an optional "+", then at least one digit,
\* and Err on overflow.
ParseUnsigned(s, maxNumeral) ==
    LET body == IF s # "" /\ Head(s) = "+" THEN Tail(s) ELSE s
    IN  IF body = "" \/ ~AllDigits(body) \/ Exceeds(body, maxNumeral) THEN None
        ELSE Some(NumeralValue(body))

\* usize::saturating_sub
saturating_sub(a, b) == IF a >= b THEN a - b ELSE 0

-----------------------------------------------------------------------------
(* Character classes *)

Whitespace == {" ", "\n", "\t", "\r"}
Digits == Chars("0123456789")
Letters == Chars("abcdefghijklmnopqrstuvwxyzABCDEFGHIJKLMNOPQRSTUVWXYZ")

is_whitespace(c) == c \in Whitespace
is_digit(c) == c \in Digits
is_alphabetic(c) == c \in Letters
is_alphanumeric(c) == c \in Letters \cup Digits

Keywords ==
    { "function", "let", "const", "var", "if", "else", "return", "true",
      "false", "type", "interface", "class", "enum", "export", "import",
      "from", "as", "new", "while", "for", "in", "of", "do", "switch", "case",
      "default", "break", "continue", "try", "catch", "finally", "throw",
      "debugger", "with", "async", "await", "public", "private", "protected",
      "static", "readonly" }

is_keyword(s) == s \in Keywords

-----------------------------------------------------------------------------
(* Tokenizer *)

\* The cursor of a Tokenizer: the fields besides src.
Cursor(p, l, c) == [position |-> p, line |-> l, column |-> c]

\* Tokenizer::new
NewCursor == Cursor(0, 1, 0)

\* The whitespace loop of skip_stuff.
RECURSIVE SkipWhitespace(_, _)
SkipWhitespace(s, cur) ==
    LET c == CharAt(s, cur.position)
    IN  IF c # NoChar /\ is_whitespace(c)
        THEN SkipWhitespace(s,
                IF c = "\n"
                THEN Cursor(cur.position + Utf8Len(c), cur.line + 1, 0)
                ELSE Cursor(cur.position + Utf8Len(c), cur.line, cur.column + 1))
        ELSE cur

\* The comment loop of skip_stuff, entered after "//" was seen.
RECURSIVE SkipComment(_, _)
SkipComment(s, cur) ==
    LET c == CharAt(s, cur.position)
    IN  IF c = NoChar THEN cur
        ELSE IF c = "\n"
             THEN Cursor(cur.position + Utf8Len(c), cur.line + 1, 0)
             ELSE SkipComment(s, Cursor(cur.position + Utf8Len(c), cur.line, cur.column))

\* One pass of the outer loop of skip_stuff.
SkipPass(s, cur) ==
    LET w == SkipWhitespace(s, cur)
    IN  IF StartsWithAt(s, w.position, "//") THEN SkipComment(s, w) ELSE w

\* read_identifier
RECURSIVE ReadIdentifier(_, _)
ReadIdentifier(s, cur) ==
    LET c == CharAt(s, cur.position)
    IN  IF c # NoChar /\ (is_alphanumeric(c) \/ c = "_")
        THEN ReadIdentifier(s, Cursor(cur.position + Utf8Len(c), cur.line, cur.column + 1))
        ELSE cur

\* read_number
RECURSIVE ReadNumber(_, _)
ReadNumber(s, cur) ==
    LET c == CharAt(s, cur.position)
    IN  IF c # NoChar /\ (is_digit(c) \/ c = ".")
        THEN ReadNumber(s, Cursor(cur.position + Utf8Len(c), cur.line, cur.column + 1))
        ELSE cur

\* read_string_literal moving the position without counting the columns.
RECURSIVE ReadStringLiteral_ColumnKept(_, _, _)
ReadStringLiteral_ColumnKept(s, cur, quote) ==
    LET c == CharAt(s, cur.position)
        c1 == Cursor(cur.position + Utf8Len(c), cur.line, cur.column)
        n == CharAt(s, c1.position)
    IN  IF c = NoChar THEN cur
        ELSE IF c = "\\"
             THEN ReadStringLiteral_ColumnKept(s,
                     IF n # NoChar
                     THEN Cursor(c1.position + Utf8Len(n), c1.line, c1.column)
                     ELSE c1,
                     quote)
        ELSE IF c = quote THEN c1
        ELSE ReadStringLiteral_ColumnKept(s, c1, quote)

\* read_string_literal taking the backslash for a character like any other.
RECURSIVE ReadStringLiteral_NoEscape(_, _, _)
ReadStringLiteral_NoEscape(s, cur, quote) ==
    LET c == CharAt(s, cur.position)
        c1 == Cursor(cur.position + Utf8Len(c), cur.line, cur.column + 1)
    IN  IF c = NoChar THEN cur
        ELSE IF c = quote THEN c1
        ELSE ReadStringLiteral_NoEscape(s, c1, quote)

\* read_string_literal, entered after the opening quote.
RECURSIVE ReadStringLiteral(_, _, _)
ReadStringLiteral(s, cur, quote) ==
    LET c == CharAt(s, cur.position)
        c1 == Cursor(cur.position + Utf8Len(c), cur.line, cur.column + 1)
        n == CharAt(s, c1.position)
    IN  IF c = NoChar THEN cur
        ELSE IF c = "\\"
             THEN ReadStringLiteral(s,
                     IF n # NoChar
                     THEN Cursor(c1.position + Utf8Len(n), c1.line, c1.column + 1)
                     ELSE c1,
                     quote)
        ELSE IF c = quote THEN c1
        ELSE ReadStringLiteral(s, c1, quote)

\* The grave accent U+0060, the third quote character of Tokenizer::next.
\* It cannot be written inside a TLA+ string, so the circumflex is its name
\* in source texts; like U+0060 it is one byte long and in no character class.
Backtick == "^"

Advance1(cur) == Cursor(cur.position + 1, cur.line, cur.column + 1)

\* Dispatch whose catch-all arm leaves the cursor where it is.
Dispatch_StuckSymbol(s, cur, c) ==
    IF c \in {"(", ")", "{", "}", "[", "]", ";", ".", ":", ",", "<", ">"}
    THEN [kind |-> "Symbol", cur |-> Advance1(cur)]
    ELSE IF c \in {"\"", "'", Backtick}
    THEN [kind |-> "Literal", cur |-> ReadStringLiteral(s, Advance1(cur), c)]
    ELSE IF is_alphabetic(c) \/ c = "_"
    THEN [kind |-> "Identifier", cur |-> ReadIdentifier(s, cur)]
    ELSE IF is_digit(c)
    THEN [kind |-> "Literal", cur |-> ReadNumber(s, cur)]
    ELSE [kind |-> "Symbol", cur |-> cur]

\* The match of Tokenizer::next on the character c at the cursor:
\* the kind of the token and the cursor after it.
Dispatch(s, cur, c) ==
    CASE c = "(" -> [kind |-> "LeftParen", cur |-> Advance1(cur)]
      [] c = ")" -> [kind |-> "RightParen", cur |-> Advance1(cur)]
      [] c \in {"{", "}", "[", "]", ";", "."} ->
                    [kind |-> "Symbol", cur |-> Advance1(cur)]
      [] c = ":" -> [kind |-> "TypeAnnotator", cur |-> Advance1(cur)]
      [] c = "," -> [kind |-> "Comma", cur |-> Advance1(cur)]
      [] c = "<" -> [kind |-> "LeftAngle", cur |-> Advance1(cur)]
      [] c = ">" -> [kind |-> "RightAngle", cur |-> Advance1(cur)]
      [] c \in {"\"", "'", Backtick} ->
                    [kind |-> "Literal", cur |-> ReadStringLiteral(s, Advance1(cur), c)]
      [] OTHER ->
            IF is_alphabetic(c) \/ c = "_"
            THEN LET e == ReadIdentifier(s, cur)
                 IN  [kind |-> IF is_keyword(ByteSlice(s, cur.position, e.position))
                               THEN "Keyword" ELSE "Identifier",
                      cur |-> e]
            ELSE IF is_digit(c)
            THEN [kind |-> "Literal", cur |-> ReadNumber(s, cur)]
            ELSE [kind |-> "Symbol",
                  cur |-> Cursor(cur.position + Utf8Len(c), cur.line, cur.column + 1)]

\* MakeToken with the end offset counted in characters instead of bytes.
MakeToken_CharEnd(s, cur) ==
    LET d == Dispatch(s, cur, CharAt(s, cur.position))
        raw == ByteSlice(s, cur.position, d.cur.position)
    IN  [kind |-> d.kind,
         raw |-> raw,
         start |-> cur.position,
         end |-> cur.position + Len(raw),
         line |-> cur.line,
         column |-> cur.column]

\* The Token that Tokenizer::next builds once skip_stuff is over and the
\* cursor is before the end of input.
MakeToken(s, cur) ==
    LET d == Dispatch(s, cur, CharAt(s, cur.position))
    IN  [kind |-> d.kind,
         raw |-> ByteSlice(s, cur.position, d.cur.position),
         start |-> cur.position,
         end |-> d.cur.position,
         line |-> cur.line,
         column |-> cur.column]

\* skip_stuff as a whole: passes until one consumes nothing.
RECURSIVE SkipStuff(_, _)
SkipStuff(s, cur) ==
    LET n == SkipPass(s, cur)
    IN  IF n.position = cur.position THEN n ELSE SkipStuff(s, n)

\* Tokenizer::tokenize from a given cursor: the remaining tokens.
RECURSIVE TokenizeFrom(_, _)
TokenizeFrom(s, cur) ==
    LET k == SkipStuff(s, cur)
    IN  IF k.position >= ByteLen(s) THEN <<>>
        ELSE <<MakeToken(s, k)>> \o
             TokenizeFrom(s, Dispatch(s, k, CharAt(s, k.position)).cur)

\* Tokenizer::new(src).tokenize()
Tokenize(s) == TokenizeFrom(s, NewCursor)

-----------------------------------------------------------------------------
(* The tokenizer as a state machine: one step per pass of skip_stuff and   *)
(* one per return of next().                                               *)

SrcAlphabet == {" ", "\n", "/", "\"", "'", "\\", "a", "1", ".", WideLetter}

Sources == StringsUpTo(SrcAlphabet, MaxSrcLen)

cursor == Cursor(position, line, column)

SetCursor(cur) ==
    /\ position' = cur.position
    /\ line' = cur.line
    /\ column' = cur.column

\* No function of the message parser or of the token utilities is called.
FnIdle ==
    /\ callee = "none"
    /\ given = <<>>
    /\ returned = <<>>

\* The classification part is not in use.
CodeIdle ==
    /\ code = ""
    /\ variant = None
    /\ cpc = "idle"
    /\ hops = 0

\* No diagnostic is being handled.
DiagIdle ==
    /\ tscLine = ""
    /\ diskText = ""
    /\ colorize = FALSE
    /\ err = <<>>
    /\ span = <<>>
    /\ suggestion = <<>>
    /\ report = <<>>
    /\ lookups = <<>>
    /\ underflow = FALSE
    /\ dpc = "idle"

\* parse_tsc_output is not running.
LoopIdle ==
    /\ lines = <<>>
    /\ index = 0
    /\ indented_line = 0
    /\ parsed = <<>>
    /\ counter = 0
    /\ found_error = FALSE
    /\ stdout = <<>>
    /\ lpc = "idle"

\* Tokenizer::new(src), and tokenize() about to call next().
TokInit ==
    /\ CodeIdle
    /\ LoopIdle
    /\ DiagIdle
    /\ src \in Sources
    /\ position = NewCursor.position
    /\ line = NewCursor.line
    /\ column = NewCursor.column
    /\ tokens = <<>>
    /\ pc = "skip"
    /\ passes = 1
    /\ previous = <<>>
    /\ FnIdle

\* One pass of the loop of skip_stuff; the loop breaks when the pass left
\* the position where it was.
SkipStuffPass ==
    /\ pc = "skip"
    /\ LET n == SkipPass(src, cursor)
       IN  /\ SetCursor(n)
           /\ pc' = IF n.position = position THEN "dispatch" ELSE "skip"
    /\ UNCHANGED <<src, tokens, passes, previous, codeVars, diagVars>>
    /\ UNCHANGED <<fnVars, loopVars>>

\* next() returns None: the loop of tokenize() ends.
NextNone ==
    /\ pc = "dispatch"
    /\ (position >= ByteLen(src) \/ CharAt(src, position) = NoChar)
    /\ pc' = "done"
    /\ UNCHANGED <<src, position, line, column, tokens, passes, previous, codeVars, diagVars>>
    /\ UNCHANGED <<fnVars, loopVars>>

\* next() returns a token, tokenize() pushes it and calls next() again.
NextToken ==
    /\ pc = "dispatch"
    /\ position < ByteLen(src)
    /\ CharAt(src, position) # NoChar
    /\ tokens' = Append(tokens, MakeToken(src, cursor))
    /\ SetCursor(Dispatch(src, cursor, CharAt(src, position)).cur)
    /\ pc' = "skip"
    /\ UNCHANGED <<src, passes, previous, codeVars, diagVars>>
    /\ UNCHANGED <<fnVars, loopVars>>

\* A second tokenize() on the Tokenizer of the first run, cursor as left.
Retokenize_SameTokenizer ==
    /\ pc = "done"
    /\ passes < MaxPasses
    /\ previous' = tokens
    /\ tokens' = <<>>
    /\ passes' = passes + 1
    /\ pc' = "skip"
    /\ UNCHANGED <<src, position, line, column, codeVars, diagVars>>
    /\ UNCHANGED <<fnVars, loopVars>>

\* The same source is tokenized again, as formatter::fmt does for every
\* diagnostic of a file: Tokenizer::new(src.clone()).tokenize().
Retokenize ==
    /\ pc = "done"
    /\ passes < MaxPasses
    /\ previous' = tokens
    /\ tokens' = <<>>
    /\ SetCursor(NewCursor)
    /\ passes' = passes + 1
    /\ pc' = "skip"
    /\ UNCHANGED <<src, codeVars, diagVars>>
    /\ UNCHANGED <<fnVars, loopVars>>

TokNext == SkipStuffPass \/ NextNone \/ NextToken \/ Retokenize

TokSpec == TokInit /\ [][TokNext]_vars

-----------------------------------------------------------------------------
(* Tokenizer properties *)

Last(q) == q[Len(q)]

\* C1: the tokens are strictly ordered by start, every token has
\* end > start, consecutive tokens do not overlap, and the raw text of each
\* token is the source text between its start and end byte offsets.
C1_TokensOrdered ==
    \A i \in 1..Len(tokens) :
        /\ tokens[i].end > tokens[i].start
        /\ tokens[i].raw = ByteSlice(src, tokens[i].start, tokens[i].end)
        /\ i < Len(tokens) =>
              /\ tokens[i].start < tokens[i + 1].start
              /\ tokens[i].end <= tokens[i + 1].start

\* A finished run with several tokens, one of them holding a two-byte
\* character and two of them apart from each other.
C1_Witness ==
    /\ pc = "done"
    /\ Len(tokens) >= 2
    /\ \E i \in 1..Len(tokens) : tokens[i].end - tokens[i].start > Len(tokens[i].raw)
    /\ \E i \in 1..(Len(tokens) - 1) : tokens[i].end < tokens[i + 1].start

\* Characters that no arm of the match of next() names.
Unrecognized(c) ==
    /\ c # NoChar
    /\ c \notin {"(", ")", "{", "}", "[", "]", ";", ".", ":", ",", "<", ">"}
    /\ c \notin {"\"", "'", Backtick, "_"}
    /\ ~is_alphabetic(c)
    /\ ~is_digit(c)

\* C2: tokenize() terminates on every input. A pass of skip_stuff that is
\* followed by another pass has moved the cursor forward, and the loop ends
\* with the pass that consumes nothing; a call of next() either returns None
\* with the cursor at the end of input or pushes one token after moving the
\* cursor forward by at least one character; a character that no arm names
\* becomes a Symbol token of that one character; the cursor never passes the
\* end of input. The position is thus a bounded, strictly increasing measure.
C2_ForwardProgress ==
    [][ /\ (pc = "skip" /\ pc' = "skip") => position' > position
        /\ (pc = "skip" /\ pc' = "dispatch") => position' = position
        /\ (pc = "dispatch" /\ pc' = "skip") =>
              /\ position' > position
              /\ Len(tokens') = Len(tokens) + 1
              /\ Unrecognized(CharAt(src, position)) =>
                    /\ Last(tokens').kind = "Symbol"
                    /\ Last(tokens').raw = CharAt(src, position)
                    /\ position' = position + Utf8Len(CharAt(src, position))
        /\ (pc = "dispatch" /\ pc' = "done") =>
              /\ position = ByteLen(src)
              /\ tokens' = tokens
        /\ position' <= ByteLen(src) ]_vars

\* A run that is over after skip_stuff took two passes in a row and after an
\* unterminated literal and an unrecognized character were read.
C2_Witness ==
    /\ pc = "done"
    /\ \E i \in 1..Len(tokens) : tokens[i].kind = "Literal" /\ tokens[i].raw = "\""
    /\ \E i \in 1..Len(tokens) : tokens[i].kind = "Symbol" /\ tokens[i].raw = "/"
    /\ line > 1

-----------------------------------------------------------------------------
(* Error classification: error/codes.rs (ErrorCode) and parser.rs          *)
(* (CommonErrors, the enumeration formatter.rs and suggestion.rs use).     *)

\* The variants of ErrorCode besides Unsupported(u16).
ErrorCodeVariants ==
    { "TypeMismatch", "InlineTypeMismatch", "PropertyMissingInType",
      "PropertyDoesNotExist", "TypeAssertionInJsNotAllowed",
      "MappedTypeMustBeStatic", "ObjectIsPossiblyNull",
      "ObjectIsPossiblyUndefined", "ObjectIsUnknown", "MissingParameters",
      "IncompatibleOverload", "UncallableExpression",
      "UnterminatedStringLiteral", "IdentifierExpected",
      "ExpressionExpected", "DisallowedTrailingComma",
      "SpreadParameterMustBeLast", "UnexpectedKeywordOrIdentifier",
      "NonExistentModuleImport", "NoExportedMember", "InvalidDefaultImport",
      "IncorrectInterfaceImplementation",
      "PropertyInClassNotAssignableToBase", "ReadonlyPropertyAssignment",
      "NoImplicitAny", "UnintentionalComparison",
      "DirectCastPotentiallyMistaken", "SpreadArgumentMustBeTupleType",
      "RightSideArithmeticMustBeEnumberable",
      "LeftSideArithmeticMustBeEnumberable", "InvalidShadowInScope",
      "CannotFindIdentifier", "MissingReturnValue", "InvalidIndexType",
      "InvalidIndexTypeSignature",
      "ElementImplicitAnyInvalidIndexTypeForObject", "TypoPropertyOnType",
      "UniqueObjectMemberNames", "UninitializedConst", "YieldNotInGenerator",
      "DeclaredButNeverUsed", "ImportedButNeverUsed", "UnreachableCode",
      "ConstEnumsDisallowed", "JsxFlagNotProvided",
      "MissingJsxIntrinsicElementsDeclaration", "JsxModuleNotSet" }

\* A value of ErrorCode; num is the payload of Unsupported and 0 otherwise.
Known(tag) == [tag |-> tag, num |-> 0]
Unsupported(n) == [tag |-> "Unsupported", num |-> n]

\* The arms of the match of ErrorCode::from_str that name a code.
FromStrTable ==
       ("TS2322" :> "TypeMismatch")
    @@ ("TS2345" :> "InlineTypeMismatch")
    @@ ("TS2554" :> "MissingParameters")
    @@ ("TS7006" :> "NoImplicitAny")
    @@ ("TS7044" :> "NoImplicitAny")
    @@ ("TS2741" :> "PropertyMissingInType")
    @@ ("TS2367" :> "UnintentionalComparison")
    @@ ("TS18046" :> "ObjectIsUnknown")
    @@ ("TS2339" :> "PropertyDoesNotExist")
    @@ ("TS2532" :> "ObjectIsPossiblyUndefined")
    @@ ("TS18048" :> "ObjectIsPossiblyUndefined")
    @@ ("TS2531" :> "ObjectIsPossiblyNull")
    @@ ("TS18047" :> "ObjectIsPossiblyNull")
    @@ ("TS2352" :> "DirectCastPotentiallyMistaken")
    @@ ("TS2556" :> "SpreadArgumentMustBeTupleType")
    @@ ("TS2362" :> "LeftSideArithmeticMustBeEnumberable")
    @@ ("TS2363" :> "RightSideArithmeticMustBeEnumberable")
    @@ ("TS2394" :> "IncompatibleOverload")
    @@ ("TS2451" :> "InvalidShadowInScope")
    @@ ("TS2307" :> "NonExistentModuleImport")
    @@ ("TS2540" :> "ReadonlyPropertyAssignment")
    @@ ("TS2420" :> "IncorrectInterfaceImplementation")
    @@ ("TS2416" :> "PropertyInClassNotAssignableToBase")
    @@ ("TS2304" :> "CannotFindIdentifier")
    @@ ("TS2355" :> "MissingReturnValue")
    @@ ("TS2349" :> "UncallableExpression")
    @@ ("TS2551" :> "TypoPropertyOnType")
    @@ ("TS2538" :> "InvalidIndexType")
    @@ ("TS1268" :> "InvalidIndexTypeSignature")
    @@ ("TS1002" :> "UnterminatedStringLiteral")
    @@ ("TS1003" :> "IdentifierExpected")
    @@ ("TS1009" :> "DisallowedTrailingComma")
    @@ ("TS1014" :> "SpreadParameterMustBeLast")
    @@ ("TS1109" :> "ExpressionExpected")
    @@ ("TS1117" :> "UniqueObjectMemberNames")
    @@ ("TS1155" :> "UninitializedConst")
    @@ ("TS1163" :> "YieldNotInGenerator")
    @@ ("TS17004" :> "JsxFlagNotProvided")
    @@ ("TS6133" :> "DeclaredButNeverUsed")
    @@ ("TS2305" :> "NoExportedMember")
    @@ ("TS2724" :> "NoExportedMember")
    @@ ("TS6192" :> "ImportedButNeverUsed")
    @@ ("TS1259" :> "InvalidDefaultImport")
    @@ ("TS95050" :> "UnreachableCode")
    @@ ("TS8016" :> "TypeAssertionInJsNotAllowed")
    @@ ("TS8010" :> "TypeAssertionInJsNotAllowed")
    @@ ("TS7061" :> "MappedTypeMustBeStatic")
    @@ ("TS7053" :> "ElementImplicitAnyInvalidIndexTypeForObject")
    @@ ("TS7026" :> "MissingJsxIntrinsicElementsDeclaration")
    @@ ("TS6244" :> "ConstEnumsDisallowed")
    @@ ("TS6142" :> "JsxModuleNotSet")
    @@ ("TS1434" :> "UnexpectedKeywordOrIdentifier")

\* The arms of the match of ErrorCode::as_str that name a variant.
AsStrTable ==
       ("TypeMismatch" :> "TS2322")
    @@ ("InlineTypeMismatch" :> "TS2345")
    @@ ("MissingParameters" :> "TS2554")
    @@ ("NoImplicitAny" :> "TS7006")
    @@ ("PropertyMissingInType" :> "TS2741")
    @@ ("UnintentionalComparison" :> "TS2367")
    @@ ("PropertyDoesNotExist" :> "TS2339")
    @@ ("ObjectIsPossiblyUndefined" :> "TS2532")
    @@ ("ObjectIsPossiblyNull" :> "TS2531")
    @@ ("ObjectIsUnknown" :> "TS18046")
    @@ ("DirectCastPotentiallyMistaken" :> "TS2352")
    @@ ("SpreadArgumentMustBeTupleType" :> "TS2556")
    @@ ("RightSideArithmeticMustBeEnumberable" :> "TS2363")
    @@ ("LeftSideArithmeticMustBeEnumberable" :> "TS2362")
    @@ ("IncompatibleOverload" :> "TS2394")
    @@ ("InvalidShadowInScope" :> "TS2451")
    @@ ("NonExistentModuleImport" :> "TS2307")
    @@ ("ReadonlyPropertyAssignment" :> "TS2540")
    @@ ("IncorrectInterfaceImplementation" :> "TS2420")
    @@ ("PropertyInClassNotAssignableToBase" :> "TS2416")
    @@ ("CannotFindIdentifier" :> "TS2304")
    @@ ("MissingReturnValue" :> "TS2355")
    @@ ("UncallableExpression" :> "TS2349")
    @@ ("InvalidIndexType" :> "TS2538")
    @@ ("InvalidIndexTypeSignature" :> "TS1268")
    @@ ("TypoPropertyOnType" :> "TS2551")
    @@ ("UnterminatedStringLiteral" :> "TS1002")
    @@ ("IdentifierExpected" :> "TS1003")
    @@ ("DisallowedTrailingComma" :> "TS1009")
    @@ ("SpreadParameterMustBeLast" :> "TS1014")
    @@ ("ExpressionExpected" :> "TS1109")
    @@ ("UniqueObjectMemberNames" :> "TS1117")
    @@ ("UninitializedConst" :> "TS1155")
    @@ ("YieldNotInGenerator" :> "TS1163")
    @@ ("JsxFlagNotProvided" :> "TS17004")
    @@ ("DeclaredButNeverUsed" :> "TS6133")
    @@ ("ImportedButNeverUsed" :> "TS6192")
    @@ ("NoExportedMember" :> "TS2305")
    @@ ("InvalidDefaultImport" :> "TS1259")
    @@ ("UnreachableCode" :> "TS95050")
    @@ ("TypeAssertionInJsNotAllowed" :> "TS8016")
    @@ ("MappedTypeMustBeStatic" :> "TS7061")
    @@ ("ElementImplicitAnyInvalidIndexTypeForObject" :> "TS7053")
    @@ ("MissingJsxIntrinsicElementsDeclaration" :> "TS7026")
    @@ ("ConstEnumsDisallowed" :> "TS6244")
    @@ ("JsxModuleNotSet" :> "TS6142")
    @@ ("UnexpectedKeywordOrIdentifier" :> "TS1434")

\* The variants of CommonErrors besides Unsupported(String).
CommonErrorsVariants ==
    { "TypeMismatch", "InlineTypeMismatch", "MissingParameters",
      "NoImplicitAny", "PropertyMissingInType", "UnintentionalComparison",
      "PropertyDoesNotExist", "ObjectIsPossiblyUndefined",
      "ObjectIsPossiblyNull", "ObjectIsUnknown",
      "DirectCastPotentiallyMistaken", "SpreadArgumentMustBeTupleType",
      "RightSideArithmeticMustBeEnumberable",
      "LeftSideArithmeticMustBeEnumberable", "IncompatibleOverload",
      "InvalidShadowInScope", "NonExistentModuleImport",
      "ReadonlyPropertyAssignment", "IncorrectInterfaceImplementation",
      "PropertyInClassNotAssignableToBase", "CannotFindIdentifier",
      "MissingReturnValue", "UncallableExpression", "InvalidIndexType",
      "InvalidIndexTypeSignature", "TypoPropertyOnType",
      "UnterminatedStringLiteral", "IdentifierExpected",
      "DisallowedTrailingComma", "SpreadParameterMustBeLast",
      "ExpressionExpected", "UniqueObjectMemberNames", "UninitializedConst",
      "YieldNotInGenerator" }

\* A value of CommonErrors; payload is the String of Unsupported.
CommonKnown(tag) == [tag |-> tag, payload |-> ""]
CommonUnsupported(c) == [tag |-> "Unsupported", payload |-> c]

\* The arms of the match of CommonErrors::from_code that name a code.
FromCodeTable ==
       ("TS2322" :> "TypeMismatch")
    @@ ("TS2345" :> "InlineTypeMismatch")
    @@ ("TS2554" :> "MissingParameters")
    @@ ("TS7006" :> "NoImplicitAny")
    @@ ("TS7044" :> "NoImplicitAny")
    @@ ("TS2741" :> "PropertyMissingInType")
    @@ ("TS2367" :> "UnintentionalComparison")
    @@ ("TS18046" :> "ObjectIsUnknown")
    @@ ("TS2339" :> "PropertyDoesNotExist")
    @@ ("TS2532" :> "ObjectIsPossiblyUndefined")
    @@ ("TS18048" :> "ObjectIsPossiblyUndefined")
    @@ ("TS2531" :> "ObjectIsPossiblyNull")
    @@ ("TS18047" :> "ObjectIsPossiblyNull")
    @@ ("TS2352" :> "DirectCastPotentiallyMistaken")
    @@ ("TS2556" :> "SpreadArgumentMustBeTupleType")
    @@ ("TS2362" :> "LeftSideArithmeticMustBeEnumberable")
    @@ ("TS2363" :> "RightSideArithmeticMustBeEnumberable")
    @@ ("TS2394" :> "IncompatibleOverload")
    @@ ("TS2451" :> "InvalidShadowInScope")
    @@ ("TS2307" :> "NonExistentModuleImport")
    @@ ("TS2540" :> "ReadonlyPropertyAssignment")
    @@ ("TS2420" :> "IncorrectInterfaceImplementation")
    @@ ("TS2416" :> "PropertyInClassNotAssignableToBase")
    @@ ("TS2304" :> "CannotFindIdentifier")
    @@ ("TS2355" :> "MissingReturnValue")
    @@ ("TS2349" :> "UncallableExpression")
    @@ ("TS2551" :> "TypoPropertyOnType")
    @@ ("TS2538" :> "InvalidIndexType")
    @@ ("TS1268" :> "InvalidIndexTypeSignature")
    @@ ("TS1002" :> "UnterminatedStringLiteral")
    @@ ("TS1003" :> "IdentifierExpected")
    @@ ("TS1009" :> "DisallowedTrailingComma")
    @@ ("TS1014" :> "SpreadParameterMustBeLast")
    @@ ("TS1109" :> "ExpressionExpected")
    @@ ("TS1117" :> "UniqueObjectMemberNames")
    @@ ("TS1155" :> "UninitializedConst")
    @@ ("TS1163" :> "YieldNotInGenerator")

\* The arms of Display for CommonErrors that name a variant.
DisplayTable ==
       ("TypeMismatch" :> "TS2322")
    @@ ("InlineTypeMismatch" :> "TS2345")
    @@ ("MissingParameters" :> "TS2554")
    @@ ("NoImplicitAny" :> "TS7006")
    @@ ("PropertyMissingInType" :> "TS2741")
    @@ ("UnintentionalComparison" :> "TS2367")
    @@ ("PropertyDoesNotExist" :> "TS2339")
    @@ ("ObjectIsPossiblyUndefined" :> "TS2532")
    @@ ("ObjectIsPossiblyNull" :> "TS2531")
    @@ ("ObjectIsUnknown" :> "TS18046")
    @@ ("DirectCastPotentiallyMistaken" :> "TS2352")
    @@ ("SpreadArgumentMustBeTupleType" :> "TS2556")
    @@ ("RightSideArithmeticMustBeEnumberable" :> "TS2363")
    @@ ("LeftSideArithmeticMustBeEnumberable" :> "TS2362")
    @@ ("IncompatibleOverload" :> "TS2394")
    @@ ("InvalidShadowInScope" :> "TS2451")
    @@ ("NonExistentModuleImport" :> "TS2307")
    @@ ("ReadonlyPropertyAssignment" :> "TS2540")
    @@ ("IncorrectInterfaceImplementation" :> "TS2420")
    @@ ("PropertyInClassNotAssignableToBase" :> "TS2416")
    @@ ("CannotFindIdentifier" :> "TS2304")
    @@ ("MissingReturnValue" :> "TS2355")
    @@ ("UncallableExpression" :> "TS2349")
    @@ ("InvalidIndexType" :> "TS2538")
    @@ ("InvalidIndexTypeSignature" :> "TS1268")
    @@ ("TypoPropertyOnType" :> "TS2551")
    @@ ("UnterminatedStringLiteral" :> "TS1002")
    @@ ("IdentifierExpected" :> "TS1003")
    @@ ("DisallowedTrailingComma" :> "TS1009")
    @@ ("SpreadParameterMustBeLast" :> "TS1014")
    @@ ("ExpressionExpected" :> "TS1109")
    @@ ("UniqueObjectMemberNames" :> "TS1117")
    @@ ("UninitializedConst" :> "TS1155")
    @@ ("YieldNotInGenerator" :> "TS1163")

\* from_str with the right-hand sides of two neighbouring arms exchanged.
from_str_Swapped(c) ==
    IF c = "TS2362" THEN Known(FromStrTable["TS2363"])
    ELSE IF c = "TS2363" THEN Known(FromStrTable["TS2362"])
    ELSE IF c \in DOMAIN FromStrTable THEN Known(FromStrTable[c])
    ELSE IF Len(c) >= 2 /\ SubSeq(c, 1, 2) = "TS"
              /\ IsSome(ParseUnsigned(From(c, 3), U16Max))
         THEN Unsupported(Unwrap(ParseUnsigned(From(c, 3), U16Max)))
         ELSE Unsupported(0)

\* ErrorCode::from_str
from_str(c) ==
    IF c \in DOMAIN FromStrTable THEN Known(FromStrTable[c])
    ELSE IF Len(c) >= 2 /\ SubSeq(c, 1, 2) = "TS"
              /\ IsSome(ParseUnsigned(From(c, 3), U16Max))
         THEN Unsupported(Unwrap(ParseUnsigned(From(c, 3), U16Max)))
         ELSE Unsupported(0)

\* as_str rendering Unsupported(n) with its number.
as_str_Numbered(v) ==
    IF v.tag \in DOMAIN AsStrTable THEN AsStrTable[v.tag] ELSE "TS" \o Decimal(v.num)

\* ErrorCode::as_str
as_str(v) ==
    IF v.tag \in DOMAIN AsStrTable THEN AsStrTable[v.tag] ELSE "TS<unsupported>"

\* CommonErrors::from_code
from_code(c) ==
    IF c \in DOMAIN FromCodeTable THEN CommonKnown(FromCodeTable[c])
    ELSE CommonUnsupported(c)

\* Display for CommonErrors
to_string(v) ==
    IF v.tag \in DOMAIN DisplayTable THEN DisplayTable[v.tag] ELSE v.payload

-----------------------------------------------------------------------------
(* The two conversions as a state machine: a code string is classified, a  *)
(* variant is rendered, and the result is converted back.                  *)

\* Code strings that are outside the table for one reason or another.
OddCodes ==
    { "", "TS", "2322", "ts2322", "TS<unsupported>", "TS+7", "TS-7", "TS02322",
      "TS2322 ", "TS65535", "TS65536", "TS70000", "TS99999", "TS123456" }

CodeStrings ==
    DOMAIN FromStrTable \cup OddCodes \cup { "TS" \o Decimal(n) : n \in 0..MaxPlainCode }

\* The values of ErrorCode the conversions start from.
ErrorCodes ==
    { Known(t) : t \in ErrorCodeVariants }
        \cup { Unsupported(n) : n \in {0, 1, MaxPlainCode, NumeralValue(U16Max)} }

\* The tokenizer is not in use.
TokIdle ==
    /\ src = ""
    /\ position = 0
    /\ line = 1
    /\ column = 0
    /\ tokens = <<>>
    /\ pc = "idle"
    /\ passes = 0
    /\ previous = <<>>

CodeInit ==
    /\ TokIdle
    /\ LoopIdle
    /\ DiagIdle
    /\ hops = 0
    /\ \/ /\ code \in CodeStrings
          /\ variant = None
          /\ cpc = "str"
       \/ /\ variant \in { Some(v) : v \in ErrorCodes }
          /\ code = ""
          /\ cpc = "var"
    /\ FnIdle

\* ErrorCode::from_str(code)
FromStr ==
    /\ cpc = "str"
    /\ hops < MaxHops
    /\ variant' = Some(from_str(code))
    /\ cpc' = "var"
    /\ hops' = hops + 1
    /\ UNCHANGED <<code, tokVars, diagVars>>
    /\ UNCHANGED <<fnVars, loopVars>>

\* variant.as_str()
AsStr ==
    /\ cpc = "var"
    /\ hops < MaxHops
    /\ code' = as_str(Unwrap(variant))
    /\ cpc' = "str"
    /\ hops' = hops + 1
    /\ UNCHANGED <<variant, tokVars, diagVars>>
    /\ UNCHANGED <<fnVars, loopVars>>

CodeNext == FromStr \/ AsStr

CodeSpec == CodeInit /\ [][CodeNext]_vars

\* C4: for every variant other than Unsupported, from_str(as_str(variant))
\* is the variant: when a variant has been rendered, classifying the string
\* gives back that variant.
C4_RoundTrip ==
    [][ (cpc = "str" /\ IsSome(variant) /\ Unwrap(variant).tag # "Unsupported")
            => variant' = variant ]_vars

\* A variant that two code strings map to has been classified, rendered and
\* classified again.
C4_Witness ==
    /\ cpc = "var"
    /\ hops = 3
    /\ code = "TS7006"
    /\ variant = Some(Known("NoImplicitAny"))

-----------------------------------------------------------------------------
(* Text: format! and the colored crate *)

\* The start of an escape sequence, ESC followed by "[". ESC cannot be
\* written in a string, so "#" is its name.
Esc == "#["

\* Display of a ColoredString: the text between the escape sequence of the
\* style and the reset sequence, or the bare text when colouring is off
\* (SHOULD_COLORIZE of the colored crate, set by terminal and environment).
\* style is the list of codes: 1 bold, 3 italic, 31 red, 32 green,
\* 33 yellow, 35 purple, 36 cyan, 91 bright red, 93 bright yellow.
Paint(style, text) ==
    IF colorize THEN Esc \o style \o "m" \o text \o Esc \o "0m" ELSE text

\* format!(template, args...): each "{}" of the template is replaced by the
\* next argument. Templates are written with "^" for the grave accent.
RECURSIVE Format(_, _)
Format(template, args) ==
    LET i == Find(template, "{}")
    IN  IF i = 0 \/ args = <<>> THEN template
        ELSE SubSeq(template, 1, i - 1) \o Head(args)
                 \o Format(From(template, i + 2), Tail(args))

-----------------------------------------------------------------------------
(* src/src/message_parser.rs *)

\* extract_quoted_value counting the occurrences from 1.
extract_quoted_value_FromOne(msg, occurrence) == Nth(Split(msg, "'"), occurrence + 1)

\* extract_quoted_value
extract_quoted_value(msg, occurrence) == Nth(Split(msg, "'"), occurrence)

extract_first_quoted(msg) == extract_quoted_value(msg, 1)

extract_second_quoted(msg) == extract_quoted_value(msg, 3)

extract_third_quoted(msg) == extract_quoted_value(msg, 5)

\* The text up to the first apostrophe, or all of it when there is none,
\* as the loops of parse_ts2322_error that collect a quoted value read it.
UpToQuote(s) == IF Find(s, "'") = 0 THEN s ELSE SubSeq(s, 1, Find(s, "'") - 1)

\* What is left from that apostrophe on, the apostrophe included.
AfterQuote_KeepQuote(s) == IF Find(s, "'") = 0 THEN "" ELSE From(s, Find(s, "'"))

\* What is left after that apostrophe.
AfterQuote(s) == IF Find(s, "'") = 0 THEN "" ELSE From(s, Find(s, "'") + 1)

\* The lookahead of parse_ts2322_error after the outer loop has consumed
\* `consumed` characters: the characters "ype '" are compared one by one,
\* k of them so far; running out of characters returns None from the
\* function ("none"), a different character resumes the outer loop.
RECURSIVE Lookahead(_, _, _)
Lookahead(msg, consumed, k) ==
    IF k = 5 THEN "match"
    ELSE IF consumed + k + 1 > Len(msg) THEN "none"
    ELSE IF SubSeq(msg, consumed + k + 1, consumed + k + 1) # SubSeq("ype '", k + 1, k + 1)
    THEN "mismatch"
    ELSE Lookahead(msg, consumed, k + 1)

\* parse_ts2322_error from the point where the outer loop has consumed
\* `consumed` characters.
RECURSIVE ParseTs2322From(_, _)
ParseTs2322From(msg, consumed) ==
    IF consumed >= Len(msg) THEN None
    ELSE LET look == Lookahead(msg, consumed + 1, 0)
             \* after the four skipped characters and the opening apostrophe
             quoted == From(msg, consumed + 7)
             from == UpToQuote(quoted)
             rest == AfterQuote(quoted)
         IN  IF look = "none" THEN None
             ELSE IF look = "mismatch" THEN ParseTs2322From(msg, consumed + 1)
             ELSE IF Find(rest, "'") = 0 THEN None
             ELSE Some(<<from, UpToQuote(AfterQuote(rest))>>)

\* parse_ts2322_error with the first character pair skipped.
parse_ts2322_error_SkipTwo(msg) == ParseTs2322From(msg, 1)

\* parse_ts2322_error
parse_ts2322_error(msg) == ParseTs2322From(msg, 0)

\* parse_property_missing_error searching the marker from the start.
parse_property_missing_error_First(msg) ==
    LET start_index == Find(msg, "type '")
        rest_of_msg == From(msg, start_index + Len("type '"))
    IN  IF start_index = 0 \/ Find(rest_of_msg, "'") = 0 THEN None
        ELSE Some(UpToQuote(rest_of_msg))

\* parse_property_missing_error
parse_property_missing_error(msg) ==
    LET start_index == RFind(msg, "type '")
        rest_of_msg == From(msg, start_index + Len("type '"))
    IN  IF start_index = 0 \/ Find(rest_of_msg, "'") = 0 THEN None
        ELSE Some(UpToQuote(rest_of_msg))

\* extract_object_type reading to the end of the message when no apostrophe
\* closes the value.
extract_object_type_ToEnd(msg, marker) ==
    LET start == Find(msg, marker)
        rest == From(msg, start + Len(marker))
    IN  IF start = 0 THEN None
        ELSE Some(UpToQuote(rest))

\* extract_object_type
extract_object_type(msg, marker) ==
    LET start == Find(msg, marker)
        rest == From(msg, start + Len(marker))
    IN  IF start = 0 \/ Find(rest, "'") = 0 THEN None
        ELSE Some(UpToQuote(rest))

\* One property of parse_object_properties: None when the piece is empty
\* or has no colon, else the pair of key and type.
PropertyOf(piece) ==
    LET prop == Trim(piece)
        colon_pos == Find(prop, ":")
    IN  IF prop = "" \/ colon_pos = 0 THEN None
        ELSE Some(<<Trim(SubSeq(prop, 1, colon_pos - 1)), Trim(From(prop, colon_pos + 1))>>)

\* The pairs that parse_object_properties inserts, in the order of insertion.
Insertions(obj_type) ==
    LET obj == Trim(obj_type)
        pieces == Split(SubSeq(obj, 2, Len(obj) - 1), ";")
    IN  IF obj = "" \/ Head(obj) # "{" \/ SubSeq(obj, Len(obj), Len(obj)) # "}"
        THEN <<>>
        ELSE SelectSeq([i \in 1..Len(pieces) |-> PropertyOf(pieces[i])], IsSome)

\* parse_object_properties: the HashMap as a function from keys to types;
\* a later insertion of a key replaces the earlier one.
parse_object_properties(obj_type) ==
    LET ins == Insertions(obj_type)
    IN  [key \in { ins[i][1][1] : i \in 1..Len(ins) } |->
            ins[Max({ i \in 1..Len(ins) : ins[i][1][1] = key })][1][2]]

\* The orders in which iterating a HashMap with these keys can yield them:
\* the order depends on the hasher's per-process random seed.
IterationOrders(keys) ==
    { q \in [1..Cardinality(keys) -> keys] : \A k \in keys : \E i \in DOMAIN q : q[i] = k }

\* The keys of the expected object of a TS2345 message.
ExpectedKeys(msg) ==
    IF IsSome(extract_object_type(msg, "to parameter of type '"))
    THEN DOMAIN parse_object_properties(Unwrap(extract_object_type(msg, "to parameter of type '")))
    ELSE {}

\* The loop of parse_ts2345_error over the expected properties, iterated
\* in the given order: the properties provided with another type.
Mismatches(provided_props, expected_props, order) ==
    LET mismatched(key) == /\ key \in DOMAIN provided_props
                           /\ provided_props[key] # expected_props[key]
        found == SelectSeq(order, mismatched)
    IN  [i \in 1..Len(found) |->
            <<found[i], provided_props[found[i]], expected_props[found[i]]>>]

\* parse_ts2345_error from the two object types on.
ParseTs2345From(provided_obj, expected_obj, order) ==
    IF ~IsSome(provided_obj) \/ ~IsSome(expected_obj) THEN None
    ELSE Some(Mismatches(parse_object_properties(Unwrap(provided_obj)),
                         parse_object_properties(Unwrap(expected_obj)), order))

\* parse_ts2345_error, the HashMap of the expected properties being
\* iterated in the given order.
parse_ts2345_error(msg, order) ==
    ParseTs2345From(extract_object_type(msg, "Argument of type '"),
                    extract_object_type(msg, "to parameter of type '"), order)

-----------------------------------------------------------------------------
(* src/src/token_utils.rs *)

\* find_token_at_position measuring a token by its bytes.
find_token_at_position_Bytes(toks, l, c) ==
    LET hits == { i \in 1..Len(toks) :
                    /\ toks[i].line = l
                    /\ c >= toks[i].column
                    /\ c < toks[i].column + ByteLen(toks[i].raw) }
    IN  IF hits = {} THEN None ELSE Some(toks[Min(hits)])

\* find_token_at_position
find_token_at_position(toks, l, c) ==
    LET hits == { i \in 1..Len(toks) :
                    /\ toks[i].line = l
                    /\ c >= toks[i].column
                    /\ c < toks[i].column + Len(toks[i].raw) }
    IN  IF hits = {} THEN None ELSE Some(toks[Min(hits)])

\* The loop of find_function_name_before, about to visit the i-th token
\* on its way backwards.
RECURSIVE FunctionNameBeforeFrom(_, _, _, _, _)
FunctionNameBeforeFrom(toks, l, c, i, found_paren) ==
    IF i = 0 THEN None
    ELSE IF toks[i].line > l \/ (toks[i].line = l /\ toks[i].column >= c)
    THEN FunctionNameBeforeFrom(toks, l, c, i - 1, found_paren)
    ELSE IF toks[i].raw = "("
    THEN FunctionNameBeforeFrom(toks, l, c, i - 1, TRUE)
    ELSE IF found_paren /\ toks[i].kind = "Identifier"
    THEN Some(toks[i])
    ELSE FunctionNameBeforeFrom(toks, l, c, i - 1, found_paren)

\* find_function_name_before
find_function_name_before(toks, l, c) ==
    FunctionNameBeforeFrom(toks, l, c, Len(toks), FALSE)

\* The position a handler looks a token up at: the diagnostic's line and
\* its column less one, not below zero.
AdjustedPosition(e) == [line |-> e.line, column |-> saturating_sub(e.column, 1)]

\* extract_identifier_at_error
extract_identifier_at_error(e, toks) ==
    LET token == find_token_at_position(toks, AdjustedPosition(e).line,
                                        AdjustedPosition(e).column)
    IN  IF IsSome(token) THEN Some(Unwrap(token).raw) ELSE None

\* extract_identifier_or_default
extract_identifier_or_default(e, toks, default) ==
    UnwrapOr(extract_identifier_at_error(e, toks), default)

\* extract_function_name
extract_function_name(e, toks, default) ==
    LET token == find_function_name_before(toks, AdjustedPosition(e).line,
                                           AdjustedPosition(e).column)
    IN  IF IsSome(token) THEN Unwrap(token).raw ELSE default

\* The loop of find_identifier_after_keyword, about to visit the i-th token.
RECURSIVE IdentifierAfterKeywordFrom(_, _, _, _, _)
IdentifierAfterKeywordFrom(toks, l, keyword, i, found_keyword) ==
    IF i > Len(toks) THEN None
    ELSE IF toks[i].line # l
    THEN IF found_keyword THEN None
         ELSE IdentifierAfterKeywordFrom(toks, l, keyword, i + 1, found_keyword)
    ELSE IF toks[i].raw = keyword
    THEN IdentifierAfterKeywordFrom(toks, l, keyword, i + 1, TRUE)
    ELSE IF found_keyword /\ toks[i].raw # "" /\ toks[i].raw # ";" /\ toks[i].raw # ":"
    THEN Some(<<toks[i].raw, [start |-> toks[i].start, end |-> toks[i].end]>>)
    ELSE IdentifierAfterKeywordFrom(toks, l, keyword, i + 1, found_keyword)

\* find_identifier_after_keyword going on over the tokens of later lines.
find_identifier_after_keyword_AnyLine(toks, l, keyword) ==
    LET seen == { i \in 1..Len(toks) : toks[i].line = l /\ toks[i].raw = keyword }
        next == { j \in 1..Len(toks) :
                    /\ seen # {}
                    /\ j > Min(seen)
                    /\ toks[j].raw \notin {"", ";", ":", keyword} }
    IN  IF next = {} THEN None
        ELSE Some(<<toks[Min(next)].raw,
                    [start |-> toks[Min(next)].start, end |-> toks[Min(next)].end]>>)

\* find_identifier_after_keyword
find_identifier_after_keyword(toks, l, keyword) ==
    IdentifierAfterKeywordFrom(toks, l, keyword, 1, FALSE)

-----------------------------------------------------------------------------
(* parse: src/src/error/mod.rs and src/src/parser.rs *)

\* The pieces that both parse functions cut a line into, None when one of
\* the separators is missing or a coordinate is no number.
ParsePieces(text) ==
    LET s1 == SplitOnce(text, "(")
        s2 == SplitOnce(Unwrap(s1)[2], "): error ")
        s3 == SplitOnce(Unwrap(s2)[1], ",")
        s4 == SplitOnce(Unwrap(s2)[2], ": ")
        l == ParseUnsigned(Unwrap(s3)[1], UsizeMax)
        c == ParseUnsigned(Unwrap(s3)[2], UsizeMax)
    IN  IF ~IsSome(s1) THEN None
        ELSE IF ~IsSome(s2) THEN None
        ELSE IF ~IsSome(s3) THEN None
        ELSE IF ~IsSome(s4) THEN None
        ELSE IF ~IsSome(l) \/ ~IsSome(c) THEN None
        ELSE Some([file |-> Unwrap(s1)[1], line |-> Unwrap(l), column |-> Unwrap(c),
                   code |-> Unwrap(s4)[1], message |-> Unwrap(s4)[2]])

\* TsError
TsError(file, l, c, errcode, message) ==
    [file |-> file, line |-> l, column |-> c, code |-> errcode, message |-> message]

\* error::parse: the code is an ErrorCode
parse(text) ==
    LET p == ParsePieces(text)
    IN  IF ~IsSome(p) THEN None
        ELSE Some(TsError(Unwrap(p).file, Unwrap(p).line, Unwrap(p).column,
                          from_str(Unwrap(p).code), Unwrap(p).message))

\* parser::parse: the code is a CommonErrors
parser_parse(text) ==
    LET p == ParsePieces(text)
    IN  IF ~IsSome(p) THEN None
        ELSE Some(TsError(Unwrap(p).file, Unwrap(p).line, Unwrap(p).column,
                          from_code(Unwrap(p).code), Unwrap(p).message))

-----------------------------------------------------------------------------
(* Suggestions: src/src/suggestion/mod.rs, src/src/diagnostics/suggestions.rs *)

\* Suggestion
Suggestion(texts, helpText, range) ==
    [suggestions |-> texts, help |-> helpText, span |-> range]

\* The styles of the colored crate that the handlers use.
red_bold(text) == Paint("1;31", text)
green_bold(text) == Paint("1;32", text)
yellow_bold(text) == Paint("1;33", text)
red_bold_italic(text) == Paint("1;3;31", text)
yellow_bold_italic(text) == Paint("1;3;33", text)
bright_red_bold_italic(text) == Paint("1;3;91", text)
bright_yellow_bold(text) == Paint("1;93", text)

\* The position suggest_unexpected_kw_or_identifier looks a token up at.
UnexpectedKwPosition(e) == [line |-> e.line, column |-> e.column]

suggest_unexpected_kw_or_identifier(e, toks) ==
    LET keyword == find_token_at_position(toks, UnexpectedKwPosition(e).line,
                                          UnexpectedKwPosition(e).column)
    IN  IF ~IsSome(keyword) THEN None
        ELSE Some(Suggestion(
                <<Format("{} ^{}^ is not expected in this context.", <<bright_red_bold_italic("[FATAL]"),
                                 bright_yellow_bold(Unwrap(keyword).raw)>>)>>,
                Some("Avoid using unknown, undeclared or invalid keywords or identifiers."),
                None))

suggest_jsx_not_set(e) ==
    LET module_name == extract_first_quoted(e.message)
        resolved_name == extract_second_quoted(e.message)
    IN  IF ~IsSome(module_name) \/ ~IsSome(resolved_name) THEN None
        ELSE Some(Suggestion(
                <<Format("Module ^{}^ is resolved to ^{}^ but jsx compiler flag is not set.", <<red_bold(Unwrap(module_name)),
                                  red_bold(Unwrap(resolved_name))>>)>>,
                Some("Enable ^--jsx^ compiler flag or add jsx to tsconfig.json"),
                None))

suggest_const_enums_disallowed ==
    Some(Suggestion(<<"Disable ^isolatedModules^ as a compiler setting to allow const enums.">>, Some("Const enums are not valid when ^isolatedModules^ is enabled."), None))

suggest_missing_jsx_intrinsic_elements_declaration ==
    Some(Suggestion(<<"JSX intrinsic elements declaration is missing in global scope.">>, Some("Either declare a global module with a JSX namespace or configure React or other JSX consumers correctly"), None))

\* The handler of TS7053 reading the object from the fifth segment.
suggest_element_implicit_any_invalid_index_type_for_object_Fifth(e) ==
    LET implicit_type == extract_quoted_value(e.message, 1)
        index_type == extract_quoted_value(e.message, 3)
        object_to_index == extract_quoted_value(e.message, 5)
    IN  IF ~IsSome(implicit_type) \/ ~IsSome(index_type) \/ ~IsSome(object_to_index)
        THEN None
        ELSE Some(Suggestion(
                <<Format("^{}^ can not be used as an index to access ^{}^ - therefore element is implicitly ^{}^.", <<red_bold(Unwrap(index_type)),
                                  red_bold(Unwrap(object_to_index)),
                                  red_bold(Unwrap(implicit_type))>>)>>,
                Some(Format("Consider declaring the index with ^{}^ or loosen the type of ^{}^ to allow indexing with ^{}^.",
                       <<Format("{} {}", <<yellow_bold("keyof typeof"),
                                         yellow_bold(Unwrap(object_to_index))>>),
                         yellow_bold(Unwrap(object_to_index)),
                         yellow_bold(Unwrap(index_type))>>)),
                None))

\* suggest_element_implicit_any_invalid_index_type_for_object
suggest_element_implicit_any_invalid_index_type_for_object(e) ==
    LET implicit_type == extract_quoted_value(e.message, 1)
        index_type == extract_quoted_value(e.message, 3)
        object_to_index == extract_quoted_value(e.message, 6)
    IN  IF ~IsSome(implicit_type) \/ ~IsSome(index_type) \/ ~IsSome(object_to_index)
        THEN None
        ELSE Some(Suggestion(
                <<Format("^{}^ can not be used as an index to access ^{}^ - therefore element is implicitly ^{}^.", <<red_bold(Unwrap(index_type)),
                                  red_bold(Unwrap(object_to_index)),
                                  red_bold(Unwrap(implicit_type))>>)>>,
                Some(Format("Consider declaring the index with ^{}^ or loosen the type of ^{}^ to allow indexing with ^{}^.",
                       <<Format("{} {}", <<yellow_bold("keyof typeof"),
                                         yellow_bold(Unwrap(object_to_index))>>),
                         yellow_bold(Unwrap(object_to_index)),
                         yellow_bold(Unwrap(index_type))>>)),
                None))

suggest_mapped_type_must_be_static ==
    Some(Suggestion(<<"Consider removing the properties and/or methods">>, Some("Split multiple mapped property declarations into individual types and combine them using a type intersection."), None))

suggest_type_assertion_in_js_not_allowed ==
    Some(Suggestion(<<"Type assertions are not allowed in JavaScript files.">>, Some("Consider converting the file to TypeScript or removing the type assertion."), None))

suggest_unreachable ==
    Some(Suggestion(<<"Code here is unreachable">>, Some("Consider removing unreachable code or the statement that causes this to be unreachable"), None))

suggest_type_mismatch(e, toks) ==
    LET types == parse_ts2322_error(e.message)
        var_name == extract_identifier_or_default(e, toks, "")
    IN  IF IsSome(types)
        THEN Some(Suggestion(
                <<Format("Try converting ^{}^ from ^{}^ to ^{}^.", <<yellow_bold_italic(var_name),
                                  red_bold(Unwrap(types)[1]),
                                  green_bold(Unwrap(types)[2])>>)>>,
                Some("Ensure that the types are compatible or perform an explicit conversion."),
                None))
        ELSE None

\* The number that a handler reads after "Expected ": the text before the
\* given word, trimmed and parsed as u32.
ExpectedCount(expected_str, word) ==
    ParseUnsigned(Trim(Head(Split(expected_str, word))), U32Max)

\* GotCount reading to the end of the text.
GotCount_ToEnd(expected_str) ==
    LET after == Nth(Split(expected_str, "but got "), 1)
    IN  IF ~IsSome(after) THEN None
        ELSE ParseUnsigned(Trim(Unwrap(after)), U32Max)

\* The number that a handler reads after "but got ", up to the next ".".
GotCount(expected_str) ==
    LET after == Nth(Split(expected_str, "but got "), 1)
    IN  IF ~IsSome(after) THEN None
        ELSE ParseUnsigned(Trim(Head(Split(Unwrap(after), "."))), U32Max)

\* The texts suggest_inline_type_mismatch gives for the mismatches parsed
\* from the message: a line for each, or the stock text for none.
MismatchTexts(mismatches) ==
    IF IsSome(mismatches) /\ Unwrap(mismatches) # <<>>
    THEN [i \in 1..Len(Unwrap(mismatches)) |->
            Format("Property ^{}^ is provided as ^{}^ but expects ^{}^.",
                   <<red_bold(Unwrap(mismatches)[i][1]),
                     red_bold(Unwrap(mismatches)[i][2]),
                     green_bold(Unwrap(mismatches)[i][3])>>)]
    ELSE <<"Argument type does not match the expected parameter type.">>

suggest_inline_type_mismatch(e, order) ==
    LET expected_str == Nth(Split(e.message, "Expected "), 1)
        expected == IF IsSome(expected_str)
                    THEN UnwrapOr(ExpectedCount(Unwrap(expected_str), " or more"), 0)
                    ELSE 0
        got == IF IsSome(expected_str)
               THEN UnwrapOr(GotCount(Unwrap(expected_str)), 0)
               ELSE 0
    IN  IF Contains(e.message, "Target signature provides too few arguments")
        THEN Some(Suggestion(
                <<IF expected > 0 /\ got > 0
                  THEN Format("The callback function has {} parameters, but the signature only accepts {}.", <<Decimal(expected), Decimal(got)>>)
                  ELSE "The callback function has too many parameters for the expected signature.">>,
                Some("Remove the extra parameters from the callback function to match the expected signature."),
                None))
        ELSE IF Contains(e.message, "Target signature provides too many arguments")
        THEN Some(Suggestion(<<"The callback function has too few parameters for the expected signature.">>, Some("Add the missing parameters to the callback function to match the expected signature."), None))
        ELSE Some(Suggestion(
                MismatchTexts(parse_ts2345_error(e.message, order)),
                Some("Check the function arguments to ensure they match the expected parameter types."),
                None))

\* The name suggest_missing_parameters gives the function.
MissingParametersFnName(e, toks) ==
    LET name == extract_identifier_at_error(e, toks)
        fallback == UnwrapOr(extract_first_quoted(e.message), "function")
    IN  IF IsSome(name) /\ Unwrap(name) # "" THEN Unwrap(name)
        ELSE extract_function_name(e, toks, fallback)

\* suggest_missing_parameters with the plural in every help text.
suggest_missing_parameters_Plural(e, toks) ==
    LET fn_name == MissingParametersFnName(e, toks)
        expected_str == Nth(Split(e.message, "Expected "), 1)
        expected == IF IsSome(expected_str)
                    THEN ExpectedCount(Unwrap(expected_str), " argument")
                    ELSE None
        got == IF IsSome(expected_str) THEN GotCount(Unwrap(expected_str)) ELSE None
        exp == Unwrap(expected)
        g == Unwrap(got)
    IN  IF IsSome(expected) /\ IsSome(got) /\ g < exp
        THEN Some(Suggestion(
                <<Format("Function ^{}^ expects {} arguments but only received {}.", <<red_bold(fn_name), Decimal(exp), Decimal(g)>>)>>,
                Some(Format("Add the missing {} to match the expected signature.", <<"arguments">>)),
                None))
        ELSE IF IsSome(expected) /\ IsSome(got) /\ g > exp
        THEN Some(Suggestion(
                <<Format("Function ^{}^ expects {} arguments but received {}.", <<red_bold(fn_name), Decimal(exp), Decimal(g)>>)>>,
                Some(Format("Remove the extra {} to match the expected signature.", <<"arguments">>)),
                None))
        ELSE Some(Suggestion(
                <<Format("Check if all required arguments are provided when invoking {}", <<red_bold(fn_name)>>)>>,
                Some(Format("Ensure the correct number of arguments are passed to ^{}^.", <<red_bold(fn_name)>>)),
                None))

\* suggest_missing_parameters
suggest_missing_parameters(e, toks) ==
    LET fn_name == MissingParametersFnName(e, toks)
        expected_str == Nth(Split(e.message, "Expected "), 1)
        expected == IF IsSome(expected_str)
                    THEN ExpectedCount(Unwrap(expected_str), " argument")
                    ELSE None
        got == IF IsSome(expected_str) THEN GotCount(Unwrap(expected_str)) ELSE None
        exp == Unwrap(expected)
        g == Unwrap(got)
    IN  IF IsSome(expected) /\ IsSome(got) /\ g < exp
        THEN Some(Suggestion(
                <<Format("Function ^{}^ expects {} arguments but only received {}.", <<red_bold(fn_name), Decimal(exp), Decimal(g)>>)>>,
                Some(Format("Add the missing {} to match the expected signature.", <<IF exp - g = 1 THEN "argument" ELSE "arguments">>)),
                None))
        ELSE IF IsSome(expected) /\ IsSome(got) /\ g > exp
        THEN Some(Suggestion(
                <<Format("Function ^{}^ expects {} arguments but received {}.", <<red_bold(fn_name), Decimal(exp), Decimal(g)>>)>>,
                Some(Format("Remove the extra {} to match the expected signature.", <<IF g - exp = 1 THEN "argument" ELSE "arguments">>)),
                None))
        ELSE Some(Suggestion(
                <<Format("Check if all required arguments are provided when invoking {}", <<red_bold(fn_name)>>)>>,
                Some(Format("Ensure the correct number of arguments are passed to ^{}^.", <<red_bold(fn_name)>>)),
                None))

suggest_no_implicit_any(e) ==
    LET param_name == extract_first_quoted(e.message)
    IN  IF ~IsSome(param_name) THEN None
        ELSE Some(Suggestion(
                <<Format("{} is implicitly ^any^.", <<red_bold(Unwrap(param_name))>>)>>,
                Some("Consider adding type annotations to avoid implicit 'any' types."),
                None))

suggest_property_missing_in_type(e, toks) ==
    LET type_name == parse_property_missing_error(e.message)
        var_name == extract_identifier_or_default(e, toks, "")
    IN  IF IsSome(type_name)
        THEN Some(Suggestion(
                <<Format("Verify that ^{}^ matches the annotated type ^{}^.", <<red_bold_italic(var_name), red_bold(Unwrap(type_name))>>)>>,
                Some(Format("Ensure that ^{}^ has all required properties defined in the type ^{}^.", <<red_bold_italic(var_name), red_bold(Unwrap(type_name))>>)),
                None))
        ELSE Some(Suggestion(<<"Verify that the object structure includes all required members of the specified type.">>, Some("Ensure the object has all required properties defined in the type."), None))

suggest_unintentional_comparison ==
    Some(Suggestion(<<"Impossible to compare as left side value is narrowed to a single value.">>, Some("Review the comparison logic to ensure it makes sense."), None))

suggest_property_does_not_exist(e) ==
    LET property_name == extract_first_quoted(e.message)
        type_name == extract_second_quoted(e.message)
    IN  IF ~IsSome(property_name) \/ ~IsSome(type_name) THEN None
        ELSE Some(Suggestion(
                <<Format("Property ^{}^ is not found on type ^{}^.", <<red_bold(Unwrap(property_name)),
                                  red_bold(Unwrap(type_name))>>)>>,
                Some("Ensure the property exists on the type or adjust your code to avoid accessing it."),
                None))

suggest_possibly_undefined(e) ==
    LET possible_undefined_var == extract_first_quoted(e.message)
    IN  IF ~IsSome(possible_undefined_var) THEN None
        ELSE Some(Suggestion(
                <<Format("{} may be ^undefined^ here.", <<red_bold(Unwrap(possible_undefined_var))>>)>>,
                Some(Format("Consider optional chaining or an explicit check before attempting to access ^{}^", <<red_bold(Unwrap(possible_undefined_var))>>)),
                None))

suggest_direct_cast_mistaken(e) ==
    LET cast_from_type == extract_first_quoted(e.message)
        cast_to_type == extract_second_quoted(e.message)
    IN  IF ~IsSome(cast_from_type) \/ ~IsSome(cast_to_type) THEN None
        ELSE Some(Suggestion(
                <<Format("Directly casting from ^{}^ to ^{}^ can be unsafe or mistaken, as both types do not overlap sufficiently.", <<yellow_bold(Unwrap(cast_from_type)),
                                  yellow_bold(Unwrap(cast_to_type))>>)>>,
                Some(Format("Consider using type guards or intermediate conversions to ensure type safety when casting from ^{}^ to ^{}^, only intermediately cast ^as unknown^ if this is desired.", <<yellow_bold(Unwrap(cast_from_type)),
                                     yellow_bold(Unwrap(cast_to_type))>>)),
                None))

suggest_spread_tuple(e) ==
    Some(Suggestion(<<"The argument being spread must be a tuple type or a ^spreadable^ type.">>, Some("Ensure that the argument being spread is a tuple type compatible with the function's parameter type."), None))

suggest_right_arithmetic(e) ==
    Some(Suggestion(<<"The right-hand side of any arithmetic operation must be a number or enumerable.">>, Some("Ensure that the value on the right side of the arithmetic operator is of type ^number^, ^bigint^ or an enum member."), None))

suggest_left_arithmetic(e) ==
    Some(Suggestion(<<"The left-hand side of any arithmetic operation must be a number or enumerable.">>, Some("Ensure that the value on the left side of the arithmetic operator is of type ^number^, ^bigint^ or an enum member."), None))

suggest_incompatible_overload(e) ==
    Some(Suggestion(<<"The provided arguments do not match any overload of the function.">>, Some("Check the function overloads and ensure that this signature adheres to the parent signature."), None))

suggest_invalid_shadow(e) ==
    LET var_name == extract_first_quoted(e.message)
    IN  IF ~IsSome(var_name) THEN None
        ELSE Some(Suggestion(
                <<Format("Declared variable ^{}^ can not shadow another variable in this scope.", <<red_bold(Unwrap(var_name))>>)>>,
                Some(Format("Consider renaming the invalid shadowed variable ^{}^.", <<red_bold(Unwrap(var_name))>>)),
                None))

suggest_nonexistent_module(e) ==
    LET module_name == extract_first_quoted(e.message)
    IN  IF ~IsSome(module_name) THEN None
        ELSE Some(Suggestion(
                <<Format("Module ^{}^ does not exist.", <<red_bold(Unwrap(module_name))>>)>>,
                Some(Format("Ensure that the module ^{}^ is installed and the import path is correct.", <<red_bold(Unwrap(module_name))>>)),
                None))

suggest_readonly_property(e) ==
    LET property_name == extract_first_quoted(e.message)
    IN  IF ~IsSome(property_name) THEN None
        ELSE Some(Suggestion(
                <<Format("Property ^{}^ is readonly and thus can not be re-assigned.", <<red_bold(Unwrap(property_name))>>)>>,
                Some(Format("Consider removing the assignment to the read-only property ^{}^ or changing its declaration to be mutable.", <<red_bold(Unwrap(property_name))>>)),
                None))

suggest_incorrect_interface(e) ==
    LET class_name == extract_first_quoted(e.message)
        interface_name == extract_second_quoted(e.message)
        missing_property == extract_third_quoted(e.message)
    IN  IF ~IsSome(class_name) \/ ~IsSome(interface_name) \/ ~IsSome(missing_property)
        THEN None
        ELSE Some(Suggestion(
                <<Format("Class ^{}^ does not implement ^{}^ from interface ^{}^.", <<red_bold(Unwrap(class_name)),
                                  red_bold(Unwrap(missing_property)),
                                  red_bold(Unwrap(interface_name))>>)>>,
                Some(Format("Ensure that ^{}^ provides all required properties and methods defined in the interface ^{}^.", <<red_bold(Unwrap(class_name)),
                                     red_bold(Unwrap(interface_name))>>)),
                None))

suggest_property_not_assignable(e) ==
    LET property == extract_first_quoted(e.message)
        impl_type == extract_second_quoted(e.message)
        base_type == extract_third_quoted(e.message)
        property_impl_type == extract_quoted_value(e.message, 7)
        property_base_type == extract_quoted_value(e.message, 9)
    IN  IF \/ ~IsSome(property) \/ ~IsSome(impl_type) \/ ~IsSome(base_type)
           \/ ~IsSome(property_impl_type) \/ ~IsSome(property_base_type)
        THEN None
        ELSE Some(Suggestion(
                <<Format("Property ^{}^ in class ^{}^ is not assignable to the same property in base class ^{}^.", <<red_bold(Unwrap(property)),
                                  red_bold(Unwrap(impl_type)),
                                  red_bold(Unwrap(base_type))>>),
                  Format("Property ^{}^ is implemented as type ^{}^ but defined as ^{}^.", <<red_bold(Unwrap(property)),
                                  red_bold(Unwrap(property_impl_type)),
                                  green_bold(Unwrap(property_base_type))>>)>>,
                Some(Format("Ensure that the type of property ^{}^ in class ^{}^ is compatible with the type defined in base class ^{}^.", <<red_bold(Unwrap(property)),
                                     red_bold(Unwrap(impl_type)),
                                     red_bold(Unwrap(base_type))>>)),
                None))

suggest_cannot_find_identifier(e) ==
    LET identifier == extract_first_quoted(e.message)
    IN  IF ~IsSome(identifier) THEN None
        ELSE Some(Suggestion(
                <<Format("Identifier ^{}^ can not be found in the current scope.", <<red_bold(Unwrap(identifier))>>)>>,
                Some(Format("Ensure that ^{}^ is declared and accessible in the current scope or remove this reference.", <<red_bold(Unwrap(identifier))>>)),
                None))

suggest_missing_return(e) ==
    Some(Suggestion(<<"A return value is missing where one is expected.">>, Some("A function that declares a return type must return a value of that type on all branches."), None))

suggest_uncallable_expression(e) ==
    LET expr == extract_first_quoted(e.message)
    IN  IF ~IsSome(expr) THEN None
        ELSE Some(Suggestion(
                <<Format("Expression ^{}^ not can not be invoked or called.", <<red_bold(Unwrap(expr))>>)>>,
                Some(Format("Ensure that ^{}^ is a function or has a callable signature before invoking it.", <<red_bold(Unwrap(expr))>>)),
                None))

suggest_invalid_index_type(e) ==
    LET index_type == extract_first_quoted(e.message)
    IN  IF ~IsSome(index_type) THEN None
        ELSE Some(Suggestion(
                <<Format("^{}^ can not be used as an index accessor.", <<red_bold(Unwrap(index_type))>>)>>,
                Some("Ensure that the index type is ^number^, ^string^, ^symbol^ or a compatible index type."),
                None))

suggest_invalid_index_signature(e, toks) ==
    LET token == find_token_at_position(toks, AdjustedPosition(e).line,
                                        AdjustedPosition(e).column)
    IN  IF ~IsSome(token) THEN None
        ELSE Some(Suggestion(
                <<Format("^{}^ is not a valid index type.", <<red_bold(Unwrap(token).raw)>>)>>,
                Some("Ensure that the index type is ^number^, ^string^, ^symbol^, ^template literal^ or a compatible index type."),
                Some([start |-> Unwrap(token).start, end |-> Unwrap(token).end])))

suggest_typo_property(e) ==
    LET property_name == extract_first_quoted(e.message)
        type_name == extract_second_quoted(e.message)
        suggested_property_name == extract_third_quoted(e.message)
    IN  IF ~IsSome(property_name) \/ ~IsSome(type_name) \/ ~IsSome(suggested_property_name)
        THEN None
        ELSE Some(Suggestion(
                <<Format("Property ^{}^ does not exist on type ^{}^. Try ^{}^ instead", <<red_bold(Unwrap(property_name)),
                                  yellow_bold(Unwrap(type_name)),
                                  green_bold(Unwrap(suggested_property_name))>>)>>,
                Some(Format("Check for typos in the property name ^{}^ or ensure that it is defined on type ^{}^.", <<red_bold(Unwrap(property_name)),
                                     red_bold(Unwrap(type_name))>>)),
                None))

suggest_possibly_null(e) ==
    LET possible_null_var == extract_first_quoted(e.message)
    IN  IF ~IsSome(possible_null_var) THEN None
        ELSE Some(Suggestion(
                <<Format("{} may be ^null^ here.", <<red_bold(Unwrap(possible_null_var))>>)>>,
                Some(Format("Consider optional chaining or an explicit null check before attempting to access ^{}^", <<red_bold(Unwrap(possible_null_var))>>)),
                None))

suggest_object_unknown(e) ==
    LET unknown_var == extract_first_quoted(e.message)
    IN  IF ~IsSome(unknown_var) THEN None
        ELSE Some(Suggestion(
                <<Format("{} is of type ^unknown^.", <<red_bold(Unwrap(unknown_var))>>)>>,
                Some(Format("Use type guards, type assertions, or narrow the type of ^{}^ before accessing its properties.", <<red_bold(Unwrap(unknown_var))>>)),
                None))

suggest_unterminated_string(e) ==
    LET literal == extract_first_quoted(e.message)
    IN  IF ~IsSome(literal) THEN None
        ELSE Some(Suggestion(
                <<Format("String {} is missing \" to close the string.", <<red_bold(Unwrap(literal))>>)>>,
                Some("Ensure that all string literals are properly closed with matching quotes."),
                None))

suggest_identifier_expected ==
    Some(Suggestion(<<"An identifier was expected at this location in the code.">>, Some("Check the syntax near this location to ensure that an identifier is provided where required."), None))

suggest_disallowed_comma ==
    Some(Suggestion(<<"Trailing commas are not allowed in this context.">>, Some("Remove the trailing comma to resolve the syntax error."), None))

suggest_spread_parameter_last ==
    Some(Suggestion(<<"A spread parameter must be the last parameter in a function signature.">>, Some("Move the ^...^ parameter to the end of the list of parameters."), None))

suggest_expression_expected ==
    Some(Suggestion(<<"An expression was found but no value is assigned to it.">>, Some("Assign a value to the expression."), None))

suggest_unique_members ==
    Some(Suggestion(<<"Consider removing or renaming one of the object members">>, Some("An object may contain a member name once."), None))

\* suggest_uninitialized_const leaving the span unset.
suggest_uninitialized_const_NoSpan(e, toks) ==
    LET found == find_identifier_after_keyword(toks, e.line, "const")
    IN  IF ~IsSome(found) THEN None
        ELSE Some(Suggestion(
                <<Format("^{}^ must be initialized", <<red_bold(Unwrap(found)[1])>>)>>,
                Some(Format("Initialize ^{}^ with a value", <<yellow_bold(Unwrap(found)[1])>>)),
                None))

\* suggest_uninitialized_const
suggest_uninitialized_const(e, toks) ==
    LET found == find_identifier_after_keyword(toks, e.line, "const")
    IN  IF ~IsSome(found) THEN None
        ELSE Some(Suggestion(
                <<Format("^{}^ must be initialized", <<red_bold(Unwrap(found)[1])>>)>>,
                Some(Format("Initialize ^{}^ with a value", <<yellow_bold(Unwrap(found)[1])>>)),
                Some(Unwrap(found)[2])))

suggest_yield_not_in_generator ==
    Some(Suggestion(
        <<Format("^{}^ can only be used in generator functions", <<red_bold("yield")>>)>>,
        Some(Format("use ^{}^ inside of ^{}^", <<yellow_bold("yield"), yellow_bold("function*")>>)),
        None))

suggest_jsx_flag ==
    Some(Suggestion(<<"JSX can not be used.">>, Some("Enable the JSX flag in your TypeScript configuration to use JSX syntax."), None))

suggest_declared_unused(e) ==
    LET unused_decl == extract_first_quoted(e.message)
    IN  IF ~IsSome(unused_decl) THEN None
        ELSE Some(Suggestion(
                <<Format("^{}^ is unused", <<red_bold(Unwrap(unused_decl))>>)>>,
                Some(Format("Consider removing the reference to ^{}^", <<yellow_bold(Unwrap(unused_decl))>>)),
                None))

suggest_no_exported_member(e) ==
    LET non_exported_member == extract_quoted_value(e.message, 3)
        potential_correction == extract_quoted_value(e.message, 5)
    IN  IF ~IsSome(non_exported_member) \/ ~IsSome(potential_correction) THEN None
        ELSE Some(Suggestion(
                <<Format("^{}^ is not exported from the module.", <<red_bold(Unwrap(non_exported_member))>>)>>,
                Some(Format("Did you mean to import ^{}^?", <<green_bold(Unwrap(potential_correction))>>)),
                None))

suggest_imported_unused ==
    Some(Suggestion(<<"This import is unused">>, Some("Consider removing it"), None))

suggest_invalid_default_import ==
    Some(Suggestion(
        <<Format("^{}^ is missing from compiler configuration, default imports are not allowed.", <<red_bold("esModuleInterop")>>)>>,
        Some(Format("Enable compiler flag ^{}^ to allow default imports for this module.", <<yellow_bold("esModuleInterop")>>)),
        None))

\* ErrorCode::suggest: the handler of each variant. order is the order in
\* which the HashMap of parse_ts2345_error is iterated.
suggest(e, toks, order) ==
    CASE e.code.tag = "TypeMismatch" -> suggest_type_mismatch(e, toks)
      [] e.code.tag = "InlineTypeMismatch" -> suggest_inline_type_mismatch(e, order)
      [] e.code.tag = "MissingParameters" -> suggest_missing_parameters(e, toks)
      [] e.code.tag = "NoImplicitAny" -> suggest_no_implicit_any(e)
      [] e.code.tag = "PropertyMissingInType" -> suggest_property_missing_in_type(e, toks)
      [] e.code.tag = "UnintentionalComparison" -> suggest_unintentional_comparison
      [] e.code.tag = "PropertyDoesNotExist" -> suggest_property_does_not_exist(e)
      [] e.code.tag = "ObjectIsPossiblyUndefined" -> suggest_possibly_undefined(e)
      [] e.code.tag = "DirectCastPotentiallyMistaken" -> suggest_direct_cast_mistaken(e)
      [] e.code.tag = "SpreadArgumentMustBeTupleType" -> suggest_spread_tuple(e)
      [] e.code.tag = "RightSideArithmeticMustBeEnumberable" -> suggest_right_arithmetic(e)
      [] e.code.tag = "LeftSideArithmeticMustBeEnumberable" -> suggest_left_arithmetic(e)
      [] e.code.tag = "IncompatibleOverload" -> suggest_incompatible_overload(e)
      [] e.code.tag = "InvalidShadowInScope" -> suggest_invalid_shadow(e)
      [] e.code.tag = "NonExistentModuleImport" -> suggest_nonexistent_module(e)
      [] e.code.tag = "ReadonlyPropertyAssignment" -> suggest_readonly_property(e)
      [] e.code.tag = "IncorrectInterfaceImplementation" -> suggest_incorrect_interface(e)
      [] e.code.tag = "PropertyInClassNotAssignableToBase" -> suggest_property_not_assignable(e)
      [] e.code.tag = "CannotFindIdentifier" -> suggest_cannot_find_identifier(e)
      [] e.code.tag = "MissingReturnValue" -> suggest_missing_return(e)
      [] e.code.tag = "UncallableExpression" -> suggest_uncallable_expression(e)
      [] e.code.tag = "InvalidIndexType" -> suggest_invalid_index_type(e)
      [] e.code.tag = "InvalidIndexTypeSignature" -> suggest_invalid_index_signature(e, toks)
      [] e.code.tag = "TypoPropertyOnType" -> suggest_typo_property(e)
      [] e.code.tag = "ObjectIsPossiblyNull" -> suggest_possibly_null(e)
      [] e.code.tag = "ObjectIsUnknown" -> suggest_object_unknown(e)
      [] e.code.tag = "UnterminatedStringLiteral" -> suggest_unterminated_string(e)
      [] e.code.tag = "IdentifierExpected" -> suggest_identifier_expected
      [] e.code.tag = "DisallowedTrailingComma" -> suggest_disallowed_comma
      [] e.code.tag = "SpreadParameterMustBeLast" -> suggest_spread_parameter_last
      [] e.code.tag = "ExpressionExpected" -> suggest_expression_expected
      [] e.code.tag = "UniqueObjectMemberNames" -> suggest_unique_members
      [] e.code.tag = "UninitializedConst" -> suggest_uninitialized_const(e, toks)
      [] e.code.tag = "YieldNotInGenerator" -> suggest_yield_not_in_generator
      [] e.code.tag = "JsxFlagNotProvided" -> suggest_jsx_flag
      [] e.code.tag = "DeclaredButNeverUsed" -> suggest_declared_unused(e)
      [] e.code.tag = "NoExportedMember" -> suggest_no_exported_member(e)
      [] e.code.tag = "ImportedButNeverUsed" -> suggest_imported_unused
      [] e.code.tag = "InvalidDefaultImport" -> suggest_invalid_default_import
      [] e.code.tag = "UnreachableCode" -> suggest_unreachable
      [] e.code.tag = "TypeAssertionInJsNotAllowed" -> suggest_type_assertion_in_js_not_allowed
      [] e.code.tag = "MappedTypeMustBeStatic" -> suggest_mapped_type_must_be_static
      [] e.code.tag = "ElementImplicitAnyInvalidIndexTypeForObject" ->
            suggest_element_implicit_any_invalid_index_type_for_object(e)
      [] e.code.tag = "MissingJsxIntrinsicElementsDeclaration" ->
            suggest_missing_jsx_intrinsic_elements_declaration
      [] e.code.tag = "ConstEnumsDisallowed" -> suggest_const_enums_disallowed
      [] e.code.tag = "JsxModuleNotSet" -> suggest_jsx_not_set(e)
      [] e.code.tag = "UnexpectedKeywordOrIdentifier" ->
            suggest_unexpected_kw_or_identifier(e, toks)
      [] e.code.tag = "Unsupported" -> None

\* The positions at which the handler of the diagnostic's variant queries
\* the tokens by line and column, in the order of the calls.
TokenQueries(e, toks) ==
    CASE e.code.tag \in {"TypeMismatch"} ->
            IF IsSome(parse_ts2322_error(e.message)) THEN <<AdjustedPosition(e)>> ELSE <<>>
      [] e.code.tag = "MissingParameters" ->
            IF IsSome(extract_identifier_at_error(e, toks))
               /\ Unwrap(extract_identifier_at_error(e, toks)) # ""
            THEN <<AdjustedPosition(e)>>
            ELSE <<AdjustedPosition(e), AdjustedPosition(e)>>
      [] e.code.tag = "PropertyMissingInType" ->
            IF IsSome(parse_property_missing_error(e.message))
            THEN <<AdjustedPosition(e)>> ELSE <<>>
      [] e.code.tag = "InvalidIndexTypeSignature" -> <<AdjustedPosition(e)>>
      [] e.code.tag = "UnexpectedKeywordOrIdentifier" -> <<UnexpectedKwPosition(e)>>
      [] OTHER -> <<>>

\* The occurrence indices that the handler of the diagnostic's variant
\* passes to extract_quoted_value, in the order of the calls in its text;
\* extract_first_quoted, extract_second_quoted and extract_third_quoted
\* pass 1, 3 and 5.
QuotedOccurrences(e) ==
    CASE e.code.tag = "JsxModuleNotSet" -> <<1, 3>>
      [] e.code.tag = "ElementImplicitAnyInvalidIndexTypeForObject" -> <<1, 3, 6>>
      [] e.code.tag = "MissingParameters" -> <<1, 1>>
      [] e.code.tag = "NoImplicitAny" -> <<1>>
      [] e.code.tag = "PropertyDoesNotExist" -> <<1, 3>>
      [] e.code.tag = "ObjectIsPossiblyUndefined" -> <<1>>
      [] e.code.tag = "DirectCastPotentiallyMistaken" -> <<1, 3>>
      [] e.code.tag = "InvalidShadowInScope" -> <<1>>
      [] e.code.tag = "NonExistentModuleImport" -> <<1>>
      [] e.code.tag = "ReadonlyPropertyAssignment" -> <<1>>
      [] e.code.tag = "IncorrectInterfaceImplementation" -> <<1, 3, 5>>
      [] e.code.tag = "PropertyInClassNotAssignableToBase" -> <<1, 3, 5, 7, 9>>
      [] e.code.tag = "CannotFindIdentifier" -> <<1>>
      [] e.code.tag = "UncallableExpression" -> <<1>>
      [] e.code.tag = "InvalidIndexType" -> <<1>>
      [] e.code.tag = "TypoPropertyOnType" -> <<1, 3, 5>>
      [] e.code.tag = "ObjectIsPossiblyNull" -> <<1>>
      [] e.code.tag = "ObjectIsUnknown" -> <<1>>
      [] e.code.tag = "UnterminatedStringLiteral" -> <<1>>
      [] e.code.tag = "DeclaredButNeverUsed" -> <<1>>
      [] e.code.tag = "NoExportedMember" -> <<3, 5>>
      [] OTHER -> <<>>

-----------------------------------------------------------------------------
(* The earlier dispatcher: src/src/suggestion.rs *)

\* type_mismatch_2322
type_mismatch_2322(e) ==
    LET types == parse_ts2322_error(e.message)
    IN  IF IsSome(types)
        THEN Some(Format("Try converting this value from ^{}^ to ^{}^.", <<red_bold(Unwrap(types)[1]), green_bold(Unwrap(types)[2])>>))
        ELSE None

\* inline_type_mismatch_2345 from the parsed mismatches on.
InlineTypeMismatch2345From(mismatches) ==
    IF IsSome(mismatches) /\ Unwrap(mismatches) # <<>>
    THEN Some([i \in 1..Len(Unwrap(mismatches)) |->
                 Format("Property ^{}^ is provided as ^{}^ but expects ^{}^.",
                        <<red_bold(Unwrap(mismatches)[i][1]),
                          red_bold(Unwrap(mismatches)[i][2]),
                          green_bold(Unwrap(mismatches)[i][3])>>)])
    ELSE None

\* inline_type_mismatch_2345
inline_type_mismatch_2345(e, order) ==
    InlineTypeMismatch2345From(parse_ts2345_error(e.message, order))

TypeMismatchHandler(e, toks) ==
    IF IsSome(type_mismatch_2322(e))
    THEN Some(Suggestion(<<Unwrap(type_mismatch_2322(e))>>, Some("Ensure that the types are compatible or perform an explicit conversion."), None))
    ELSE None

InlineTypeMismatchHandler(e, order) ==
    LET expected_str == Nth(Split(e.message, "Expected "), 1)
        expected == IF IsSome(expected_str)
                    THEN UnwrapOr(ExpectedCount(Unwrap(expected_str), " or more"), 0)
                    ELSE 0
        got == IF IsSome(expected_str)
               THEN UnwrapOr(GotCount(Unwrap(expected_str)), 0)
               ELSE 0
    IN  IF Contains(e.message, "Target signature provides too few arguments")
        THEN Some(Suggestion(
                <<IF expected > 0 /\ got > 0
                  THEN Format("The callback function has {} parameters, but the signature only accepts {}.", <<Decimal(expected), Decimal(got)>>)
                  ELSE "The callback function has too many parameters for the expected signature.">>,
                Some("Remove the extra parameters from the callback function to match the expected signature."),
                None))
        ELSE IF Contains(e.message, "Target signature provides too many arguments")
        THEN Some(Suggestion(<<"The callback function has too few parameters for the expected signature.">>, Some("Add the missing parameters to the callback function to match the expected signature."), None))
        ELSE Some(Suggestion(
                UnwrapOr(inline_type_mismatch_2345(e, order), <<"Argument type does not match the expected parameter type.">>),
                Some("Check the function arguments to ensure they match the expected parameter types."),
                None))

MissingParametersHandler(e, toks) ==
    LET name == extract_identifier_at_error(e, toks)
        fallback == UnwrapOr(extract_first_quoted(e.message), "function")
        fn_name == IF IsSome(name) /\ Unwrap(name) # "" THEN Unwrap(name)
                   ELSE extract_function_name(e, toks, fallback)
        expected_str == Nth(Split(e.message, "Expected "), 1)
        expected == IF IsSome(expected_str)
                    THEN ExpectedCount(Unwrap(expected_str), " argument")
                    ELSE None
        got == IF IsSome(expected_str) THEN GotCount(Unwrap(expected_str)) ELSE None
        exp == Unwrap(expected)
        g == Unwrap(got)
    IN  IF IsSome(expected) /\ IsSome(got) /\ g < exp
        THEN Some(Suggestion(
                <<Format("Function ^{}^ expects {} arguments but only received {}.", <<red_bold(fn_name), Decimal(exp), Decimal(g)>>)>>,
                Some(Format("Add the missing {} to match the expected signature.", <<IF exp - g = 1 THEN "argument" ELSE "arguments">>)),
                None))
        ELSE IF IsSome(expected) /\ IsSome(got) /\ g > exp
        THEN Some(Suggestion(
                <<Format("Function ^{}^ expects {} arguments but received {}.", <<red_bold(fn_name), Decimal(exp), Decimal(g)>>)>>,
                Some(Format("Remove the extra {} to match the expected signature.", <<IF g - exp = 1 THEN "argument" ELSE "arguments">>)),
                None))
        ELSE Some(Suggestion(
                <<Format("Check if all required arguments are provided when invoking {}", <<red_bold(fn_name)>>)>>,
                Some(Format("Ensure the correct number of arguments are passed to ^{}^.", <<red_bold(fn_name)>>)),
                None))

NoImplicitAnyHandler(e, toks) ==
    LET param_name == UnwrapOr(extract_first_quoted(e.message), "parameter")
    IN  Some(Suggestion(
            <<Format("{} is implicitly ^any^.", <<red_bold(param_name)>>)>>,
            Some("Consider adding type annotations to avoid implicit 'any' types."),
            None))

PropertyMissingInTypeHandler(e, toks) ==
    LET type_name == parse_property_missing_error(e.message)
        var_name == extract_identifier_or_default(e, toks, "")
    IN  IF IsSome(type_name)
        THEN Some(Suggestion(
                <<Format("Verify that ^{}^ matches the annotated type ^{}^.", <<red_bold_italic(var_name), red_bold(Unwrap(type_name))>>)>>,
                Some(Format("Ensure that ^{}^ has all required properties defined in the type ^{}^.", <<red_bold_italic(var_name), red_bold(Unwrap(type_name))>>)),
                None))
        ELSE Some(Suggestion(<<"Verify that the object structure includes all required members of the specified type.">>, Some("Ensure the object has all required properties defined in the type."), None))

UnintentionalComparisonHandler(e, toks) ==
    Some(Suggestion(<<"Impossible to compare as left side value is narrowed to a single value.">>, Some("Review the comparison logic to ensure it makes sense."), None))

PropertyDoesNotExistHandler(e, toks) ==
    LET property_name == UnwrapOr(extract_first_quoted(e.message), "property")
        type_name == UnwrapOr(extract_second_quoted(e.message), "type")
    IN  Some(Suggestion(
            <<Format("Property ^{}^ is not found on type ^{}^.", <<red_bold(property_name), red_bold(type_name)>>)>>,
            Some("Ensure the property exists on the type or adjust your code to avoid accessing it."),
            None))

ObjectIsPossiblyUndefinedHandler(e, toks) ==
    LET possible_undefined_var == UnwrapOr(extract_first_quoted(e.message), "object")
    IN  Some(Suggestion(
            <<Format("{} may be ^undefined^ here.", <<red_bold(possible_undefined_var)>>)>>,
            Some(Format("Consider optional chaining or an explicit check before attempting to access ^{}^", <<red_bold(possible_undefined_var)>>)),
            None))

DirectCastPotentiallyMistakenHandler(e, toks) ==
    LET cast_from_type == UnwrapOr(extract_first_quoted(e.message), "type")
        cast_to_type == UnwrapOr(extract_second_quoted(e.message), "type")
    IN  Some(Suggestion(
            <<Format("Directly casting from ^{}^ to ^{}^ can be unsafe or mistaken, as both types do not overlap sufficiently.", <<yellow_bold(cast_from_type), yellow_bold(cast_to_type)>>)>>,
            Some(Format("Consider using type guards or intermediate conversions to ensure type safety when casting from ^{}^ to ^{}^, only intermediately cast ^as unknown^ if this is desired.", <<yellow_bold(cast_from_type), yellow_bold(cast_to_type)>>)),
            None))

SpreadArgumentMustBeTupleTypeHandler(e, toks) ==
    Some(Suggestion(<<"The argument being spread must be a tuple type or a ^spreadable^ type.">>, Some("Ensure that the argument being spread is a tuple type compatible with the function's parameter type."), None))

RightSideArithmeticMustBeEnumberableHandler(e, toks) ==
    Some(Suggestion(<<"The right-hand side of any arithmetic operation must be a number or enumerable.">>, Some("Ensure that the value on the right side of the arithmetic operator is of type ^number^, ^bigint^ or an enum member."), None))

LeftSideArithmeticMustBeEnumberableHandler(e, toks) ==
    Some(Suggestion(<<"The left-hand side of any arithmetic operation must be a number or enumerable.">>, Some("Ensure that the value on the left side of the arithmetic operator is of type ^number^, ^bigint^ or an enum member."), None))

IncompatibleOverloadHandler(e, toks) ==
    Some(Suggestion(<<"The provided arguments do not match any overload of the function.">>, Some("Check the function overloads and ensure that this signature adheres to the parent signature."), None))

InvalidShadowInScopeHandler(e, toks) ==
    LET var_name == UnwrapOr(extract_first_quoted(e.message), "variable")
    IN  Some(Suggestion(
            <<Format("Declared variable ^{}^ can not shadow another variable in this scope.", <<red_bold(var_name)>>)>>,
            Some(Format("Consider renaming the invalid shadowed variable ^{}^.", <<red_bold(var_name)>>)),
            None))

NonExistentModuleImportHandler(e, toks) ==
    LET module_name == UnwrapOr(extract_first_quoted(e.message), "module")
    IN  Some(Suggestion(
            <<Format("Module ^{}^ does not exist.", <<red_bold(module_name)>>)>>,
            Some(Format("Ensure that the module ^{}^ is installed and the import path is correct.", <<red_bold(module_name)>>)),
            None))

ReadonlyPropertyAssignmentHandler(e, toks) ==
    LET property_name == UnwrapOr(extract_first_quoted(e.message), "property")
    IN  Some(Suggestion(
            <<Format("Property ^{}^ is readonly and thus can not be re-assigned.", <<red_bold(property_name)>>)>>,
            Some(Format("Consider removing the assignment to the read-only property ^{}^ or changing its declaration to be mutable.", <<red_bold(property_name)>>)),
            None))

IncorrectInterfaceImplementationHandler(e, toks) ==
    LET class_name == UnwrapOr(extract_first_quoted(e.message), "class")
        interface_name == UnwrapOr(extract_second_quoted(e.message), "interface")
        missing_property == UnwrapOr(extract_third_quoted(e.message), "property")
    IN  Some(Suggestion(
            <<Format("Class ^{}^ does not implement ^{}^ from interface ^{}^.", <<red_bold(class_name), red_bold(missing_property), red_bold(interface_name)>>)>>,
            Some(Format("Ensure that ^{}^ provides all required properties and methods defined in the interface ^{}^.", <<red_bold(class_name), red_bold(interface_name)>>)),
            None))

PropertyInClassNotAssignableToBaseHandler(e, toks) ==
    LET property == UnwrapOr(extract_first_quoted(e.message), "property")
        impl_type == UnwrapOr(extract_second_quoted(e.message), "type")
        base_type == UnwrapOr(extract_third_quoted(e.message), "base type")
        property_impl_type == UnwrapOr(extract_quoted_value(e.message, 7), "type")
        property_base_type == UnwrapOr(extract_quoted_value(e.message, 9), "base type")
    IN  Some(Suggestion(
            <<Format("Property ^{}^ in class ^{}^ is not assignable to the same property in base class ^{}^.", <<red_bold(property), red_bold(impl_type), red_bold(base_type)>>),
              Format("Property ^{}^ is implemented as type ^{}^ but defined as ^{}^.", <<red_bold(property), red_bold(property_impl_type),
                              green_bold(property_base_type)>>)>>,
            Some(Format("Ensure that the type of property ^{}^ in class ^{}^ is compatible with the type defined in base class ^{}^.", <<red_bold(property), red_bold(impl_type), red_bold(base_type)>>)),
            None))

CannotFindIdentifierHandler(e, toks) ==
    LET identifier == UnwrapOr(extract_first_quoted(e.message), "identifier")
    IN  Some(Suggestion(
            <<Format("Identifier ^{}^ cannot be found in the current scope.", <<red_bold(identifier)>>)>>,
            Some(Format("Ensure that ^{}^ is declared and accessible in the current scope or remove this reference.", <<red_bold(identifier)>>)),
            None))

MissingReturnValueHandler(e, toks) ==
    Some(Suggestion(<<"A return value is missing where one is expected.">>, Some("A function that declares a return type must return a value of that type on all branches."), None))

UncallableExpressionHandler(e, toks) ==
    LET expr == UnwrapOr(extract_first_quoted(e.message), "expression")
    IN  Some(Suggestion(
            <<Format("Expression ^{}^ not can not be invoked or called.", <<red_bold(expr)>>)>>,
            Some(Format("Ensure that ^{}^ is a function or has a callable signature before invoking it.", <<red_bold(expr)>>)),
            None))

InvalidIndexTypeHandler(e, toks) ==
    LET index_type == UnwrapOr(extract_first_quoted(e.message), "type")
    IN  Some(Suggestion(
            <<Format("^{}^ cannot be used as an index accessor.", <<red_bold(index_type)>>)>>,
            Some("Ensure that the index type is ^number^, ^string^, ^symbol^ or a compatible index type."),
            None))

InvalidIndexTypeSignatureHandler(e, toks) ==
    LET token == find_token_at_position(toks, AdjustedPosition(e).line,
                                        AdjustedPosition(e).column)
        span_text == IF IsSome(token) THEN Unwrap(token).raw ELSE "property"
        range == IF IsSome(token)
                 THEN [start |-> Unwrap(token).start, end |-> Unwrap(token).end]
                 ELSE [start |-> 0, end |-> 0]
    IN  Some(Suggestion(
            <<Format("^{}^ is not a valid index type.", <<red_bold(span_text)>>)>>,
            Some("Ensure that the index type is ^number^, ^string^, ^symbol^, ^template literal^ or a compatible index type."),
            Some(range)))

TypoPropertyOnTypeHandler(e, toks) ==
    LET property_name == UnwrapOr(extract_first_quoted(e.message), "property")
        type_name == UnwrapOr(extract_second_quoted(e.message), "type")
        suggested_property_name == UnwrapOr(extract_third_quoted(e.message), "property")
    IN  Some(Suggestion(
            <<Format("Property ^{}^ does not exist on type ^{}^. Try ^{}^ instead", <<red_bold(property_name), yellow_bold(type_name), green_bold(suggested_property_name)>>)>>,
            Some(Format("Check for typos in the property name ^{}^ or ensure that it is defined on type ^{}^.", <<red_bold(property_name), red_bold(type_name)>>)),
            None))

ObjectIsPossiblyNullHandler(e, toks) ==
    LET possible_null_var == UnwrapOr(extract_first_quoted(e.message), "object")
    IN  Some(Suggestion(
            <<Format("{} may be ^null^ here.", <<red_bold(possible_null_var)>>)>>,
            Some(Format("Consider optional chaining or an explicit null check before attempting to access ^{}^", <<red_bold(possible_null_var)>>)),
            None))

ObjectIsUnknownHandler(e, toks) ==
    LET unknown_var == UnwrapOr(extract_first_quoted(e.message), "value")
    IN  Some(Suggestion(
            <<Format("{} is of type ^unknown^.", <<red_bold(unknown_var)>>)>>,
            Some(Format("Use type guards, type assertions, or narrow the type of ^{}^ before accessing its properties.", <<red_bold(unknown_var)>>)),
            None))

UnterminatedStringLiteralHandler(e, toks) ==
    LET literal == UnwrapOr(extract_first_quoted(e.message), "string literal")
    IN  Some(Suggestion(
            <<Format("String {} is missing \" to close the string.", <<red_bold(literal)>>)>>,
            Some("Ensure that all string literals are properly closed with matching quotes."),
            None))

IdentifierExpectedHandler(e, toks) ==
    Some(Suggestion(<<"An identifier was expected at this location in the code.">>, Some("Check the syntax near this location to ensure that an identifier is provided where required."), None))

DisallowedTrailingCommaHandler(e, toks) ==
    Some(Suggestion(<<"Trailing commas are not allowed in this context.">>, Some("Remove the trailing comma to resolve the syntax error."), None))

SpreadParameterMustBeLastHandler(e, toks) ==
    Some(Suggestion(<<"A spread parameter must be the last parameter in a function signature.">>, Some("Move the ^...^ parameter to the end of the list of parameters."), None))

ExpressionExpectedHandler(e, toks) ==
    Some(Suggestion(<<"An expression was found but no value is assigned to it.">>, Some("Assign a value to the expression."), None))

UniqueObjectMemberNamesHandler(e, toks) ==
    Some(Suggestion(<<"Consider removing or renaming one of the object members">>, Some("An object may contain a member name once."), None))

UninitializedConstHandler(e, toks) ==
    LET found == find_identifier_after_keyword(toks, e.line, "const")
        name == IF IsSome(found) THEN Unwrap(found)[1] ELSE "const"
        range == IF IsSome(found) THEN Unwrap(found)[2] ELSE [start |-> 0, end |-> 0]
    IN  Some(Suggestion(
            <<Format("^{}^ must be initialized", <<red_bold(name)>>)>>,
            Some(Format("Initialize ^{}^ with a value", <<yellow_bold(name)>>)),
            Some(range)))

YieldNotInGeneratorHandler(e, toks) ==
    Some(Suggestion(
        <<Format("^{}^ can only be used in generator functions", <<red_bold("yield")>>)>>,
        Some(Format("use ^{}^ inside of ^{}^", <<yellow_bold("yield"), yellow_bold("function*")>>)),
        None))

\* Suggestion::build: the handler of each variant of CommonErrors.
build(e, toks, order) ==
    CASE e.code.tag = "TypeMismatch" -> TypeMismatchHandler(e, toks)
      [] e.code.tag = "InlineTypeMismatch" -> InlineTypeMismatchHandler(e, order)
      [] e.code.tag = "MissingParameters" -> MissingParametersHandler(e, toks)
      [] e.code.tag = "NoImplicitAny" -> NoImplicitAnyHandler(e, toks)
      [] e.code.tag = "PropertyMissingInType" -> PropertyMissingInTypeHandler(e, toks)
      [] e.code.tag = "UnintentionalComparison" -> UnintentionalComparisonHandler(e, toks)
      [] e.code.tag = "PropertyDoesNotExist" -> PropertyDoesNotExistHandler(e, toks)
      [] e.code.tag = "ObjectIsPossiblyUndefined" -> ObjectIsPossiblyUndefinedHandler(e, toks)
      [] e.code.tag = "DirectCastPotentiallyMistaken" ->
            DirectCastPotentiallyMistakenHandler(e, toks)
      [] e.code.tag = "SpreadArgumentMustBeTupleType" ->
            SpreadArgumentMustBeTupleTypeHandler(e, toks)
      [] e.code.tag = "RightSideArithmeticMustBeEnumberable" ->
            RightSideArithmeticMustBeEnumberableHandler(e, toks)
      [] e.code.tag = "LeftSideArithmeticMustBeEnumberable" ->
            LeftSideArithmeticMustBeEnumberableHandler(e, toks)
      [] e.code.tag = "IncompatibleOverload" -> IncompatibleOverloadHandler(e, toks)
      [] e.code.tag = "InvalidShadowInScope" -> InvalidShadowInScopeHandler(e, toks)
      [] e.code.tag = "NonExistentModuleImport" -> NonExistentModuleImportHandler(e, toks)
      [] e.code.tag = "ReadonlyPropertyAssignment" -> ReadonlyPropertyAssignmentHandler(e, toks)
      [] e.code.tag = "IncorrectInterfaceImplementation" ->
            IncorrectInterfaceImplementationHandler(e, toks)
      [] e.code.tag = "PropertyInClassNotAssignableToBase" ->
            PropertyInClassNotAssignableToBaseHandler(e, toks)
      [] e.code.tag = "CannotFindIdentifier" -> CannotFindIdentifierHandler(e, toks)
      [] e.code.tag = "MissingReturnValue" -> MissingReturnValueHandler(e, toks)
      [] e.code.tag = "UncallableExpression" -> UncallableExpressionHandler(e, toks)
      [] e.code.tag = "InvalidIndexType" -> InvalidIndexTypeHandler(e, toks)
      [] e.code.tag = "InvalidIndexTypeSignature" -> InvalidIndexTypeSignatureHandler(e, toks)
      [] e.code.tag = "TypoPropertyOnType" -> TypoPropertyOnTypeHandler(e, toks)
      [] e.code.tag = "ObjectIsPossiblyNull" -> ObjectIsPossiblyNullHandler(e, toks)
      [] e.code.tag = "ObjectIsUnknown" -> ObjectIsUnknownHandler(e, toks)
      [] e.code.tag = "UnterminatedStringLiteral" -> UnterminatedStringLiteralHandler(e, toks)
      [] e.code.tag = "IdentifierExpected" -> IdentifierExpectedHandler(e, toks)
      [] e.code.tag = "DisallowedTrailingComma" -> DisallowedTrailingCommaHandler(e, toks)
      [] e.code.tag = "SpreadParameterMustBeLast" -> SpreadParameterMustBeLastHandler(e, toks)
      [] e.code.tag = "ExpressionExpected" -> ExpressionExpectedHandler(e, toks)
      [] e.code.tag = "UniqueObjectMemberNames" -> UniqueObjectMemberNamesHandler(e, toks)
      [] e.code.tag = "UninitializedConst" -> UninitializedConstHandler(e, toks)
      [] e.code.tag = "YieldNotInGenerator" -> YieldNotInGeneratorHandler(e, toks)
      [] e.code.tag = "Unsupported" -> None

-----------------------------------------------------------------------------
(* src/src/formatter.rs *)

\* usize subtraction: None when the result would be below zero, which is a
\* panic in a build with overflow checks and usize::MAX without them.
checked_sub(a, b) == IF a >= b THEN Some(a - b) ELSE None

\* Whether the token loop of fmt computes err.column - 1 below zero: the
\* subtraction is reached for the first token on the diagnostic's line.
TokenLoopUnderflows(toks, e) ==
    /\ e.column = 0
    /\ \E i \in 1..Len(toks) : toks[i].line = e.line

\* The token loop of fmt: the span of the first token on the diagnostic's
\* line that covers column - 1. Without overflow checks a difference below
\* zero is usize::MAX, which is at or after every token's column and not
\* before any token's end, so no token matches.
TokenLoopSpan(toks, e) ==
    LET adj == checked_sub(e.column, 1)
        hits == { i \in 1..Len(toks) :
                    /\ toks[i].line = e.line
                    /\ IsSome(adj)
                    /\ Unwrap(adj) >= toks[i].column
                    /\ Unwrap(adj) < toks[i].column + Len(toks[i].raw) }
    IN  IF hits = {} THEN None
        ELSE Some([start |-> toks[Min(hits)].start, end |-> toks[Min(hits)].end])

\* The walk of fmt over the characters of the source, about to visit the
\* i-th one: the span of the character at the diagnostic's position, or the
\* last byte when the walk ends without reaching it.
RECURSIVE FallbackFrom(_, _, _, _, _, _)
FallbackFrom(s, e, i, byte_offset, current_line, current_column) ==
    LET ch == SubSeq(s, i, i)
    IN  IF i > Len(s)
        THEN [start |-> (IF byte_offset > 1 THEN byte_offset ELSE 1) - 1,
              end |-> byte_offset]
        ELSE IF current_line = e.line /\ Some(current_column) = checked_sub(e.column, 1)
        THEN [start |-> byte_offset, end |-> byte_offset + Utf8Len(ch)]
        ELSE IF ch = "\n"
        THEN FallbackFrom(s, e, i + 1, byte_offset + Utf8Len(ch), current_line + 1, 0)
        ELSE FallbackFrom(s, e, i + 1, byte_offset + Utf8Len(ch), current_line,
                          current_column + 1)

\* The closure of fmt that computes the span when no token matched.
FallbackSpan(s, e) == FallbackFrom(s, e, 1, 0, 1, 0)

\* Whether that walk computes err.column - 1 below zero: it does for the
\* first character it visits on the diagnostic's line.
FallbackUnderflows(s, e) ==
    /\ e.column = 0
    /\ e.line >= 1
    /\ \/ e.line <= Cardinality(Occurrences(s, "\n"))
       \/ /\ e.line = Cardinality(Occurrences(s, "\n")) + 1
          /\ s # ""
          /\ SubSeq(s, Len(s), Len(s)) # "\n"

\* The span fmt computes from the diagnostic's line and column.
ComputedSpan(s, toks, e) ==
    IF IsSome(TokenLoopSpan(toks, e)) THEN Unwrap(TokenLoopSpan(toks, e))
    ELSE FallbackSpan(s, e)

\* Whether computing it takes err.column - 1 below zero.
SpanUnderflows(s, toks, e) ==
    \/ TokenLoopUnderflows(toks, e)
    \/ ~IsSome(TokenLoopSpan(toks, e)) /\ FallbackUnderflows(s, e)

\* fmt_simple
fmt_simple(e) ==
    Format("{}:{}:{} - {} {}: {}\n",
           <<Paint("36", e.file), Paint("33", Decimal(e.line)), Paint("33", Decimal(e.column)),
             red_bold("error"), red_bold(to_string(from_code(to_string(e.code)))), e.message>>)
        \o Format("  --> {}:{}:{}\n",
                  <<Paint("36", e.file), Paint("36", Decimal(e.line)),
                    Paint("36", Decimal(e.column))>>)
        \o "      |\n"
        \o Format("{} {}\n", <<Paint("35", "      ="), "TypeScript compiler error">>)

\* What fmt returns: the text of fmt_simple, or the report it hands to the
\* report builder (its span, code, message, labels and help).
Output(text, range, codeText, message, labels, helpText) ==
    [text |-> text, span |-> range, code |-> codeText, message |-> message,
     labels |-> labels, help |-> helpText]

SimpleOutput(e) == Output(fmt_simple(e), None, "", "", <<>>, "")

\* A label of the report.
Label(range, message) == [span |-> range, message |-> message]

\* The labels fmt gives the report: one per suggestion line, or the stock
\* one when there is no suggestion or no line; all at the computed span.
Labels(range, s) ==
    IF IsSome(s) /\ Unwrap(s).suggestions # <<>>
    THEN [i \in 1..Len(Unwrap(s).suggestions) |-> Label(range, Unwrap(s).suggestions[i])]
    ELSE <<Label(range, "Error found here ")>>

\* The report of fmt.
ReportOutput(e, range, s) ==
    Output("", Some(range), to_string(e.code), e.message, Labels(range, s),
           IF IsSome(s) THEN UnwrapOr(Unwrap(s).help, "No suggestion available.") ELSE "No suggestion available.")

-----------------------------------------------------------------------------
(* One diagnostic from the line of compiler output to the report: the line *)
(* is parsed, then either formatted by formatter::fmt, which dispatches    *)
(* with Suggestion::build, or dispatched with ErrorCode::suggest.          *)

\* A line of compiler output.
DiagnosticLine(file, l, c, codeText, message) ==
    file \o "(" \o l \o "," \o c \o "): error " \o codeText \o ": " \o message

\* Messages of the compiler, and texts that are not.
Messages ==
    { "Type 'string' is not assignable to type 'number'.",
      "Argument of type '{ a: string; b: number; }' is not assignable to parameter of type '{ a: number; b: string; }'.",
      "Target signature provides too few arguments. Expected 2 or more, but got 1.",
      "Expected 2 arguments, but got 1.",
      "Property 'x' is missing in type 'A' but required in type 'B'.",
      "Property 'foo' does not exist on type 'Bar'. Did you mean 'food'?",
      "Property 'p' in type 'D' is not assignable to the same property in base type 'B'. Type 'string' is not assignable to type 'number'.",
      "Element implicitly has an 'any' type because expression of type 'string' can't be used to index type 'Obj'.",
      "'const' declarations must be initialized.",
      "Unexpected keyword or identifier.",
      "Type 'string",
      "" }

\* Code strings of diagnostics: those of either table, and some of neither.
DiagnosticCodes ==
    DOMAIN FromStrTable \cup DOMAIN FromCodeTable \cup {"TS9999", "TS99999", "E0308"}

\* Source files: an absent or empty one, and two with tokens.
SourceTexts == { "", "const x", "f(a, b)\nconst y = 1;" }

\* Lines that are no diagnostic, or whose pieces are unusual.
OddLines ==
    { "",
      "Found 1 error.",
      "a.ts(1): error TS2322: no column",
      "a.ts(x,1): error TS2322: no line",
      "a.ts(1,1): warning TS2322: no error",
      "a.ts(1,1): error TS2322",
      "a.ts(1,99999999999999999999): error TS2322: Type 'string' is not assignable to type 'number'.",
      "src/(app)/page.ts(1,1): error TS2322: Type 'string' is not assignable to type 'number'.",
      "a.ts(1,1): error TS1155: 'const' declarations: must be initialized." }

\* Code strings of the diagnostics whose handlers look at the tokens, and
\* one of neither table.
PositionalCodes ==
    {"TS2322", "TS2345", "TS2554", "TS2741", "TS1268", "TS1434", "TS1155", "TS9999"}

\* Messages of those diagnostics, and the empty one.
PositionalMessages ==
    { "Type 'string' is not assignable to type 'number'.",
      "Expected 2 arguments, but got 1.",
      "Property 'x' is missing in type 'A' but required in type 'B'.",
      "" }

\* The lines of compiler output handled: every code with every message at
\* the first position, the positional ones at every position, and the odd
\* lines.
Lines ==
    OddLines \cup
    { DiagnosticLine("a.ts", "1", "1", codeText, message) :
        codeText \in DiagnosticCodes, message \in Messages } \cup
    { DiagnosticLine("a.ts", Decimal(l), Decimal(c), codeText, message) :
        l \in 0..MaxLine, c \in 0..MaxColumn,
        codeText \in PositionalCodes, message \in PositionalMessages }

DiagInit ==
    /\ TokIdle
    /\ LoopIdle
    /\ CodeIdle
    /\ tscLine \in Lines
    /\ diskText \in SourceTexts
    /\ colorize \in BOOLEAN
    /\ err = None
    /\ span = None
    /\ suggestion = None
    /\ report = None
    /\ lookups = <<>>
    /\ underflow = FALSE
    /\ dpc = "line"
    /\ FnIdle

\* parser::parse(lines[i]) in parse_tsc_output: a diagnostic goes on to
\* formatter::fmt, any other line is passed over.
ParserParse ==
    /\ dpc = "line"
    /\ err' = parser_parse(tscLine)
    /\ code' = IF IsSome(ParsePieces(tscLine)) THEN Unwrap(ParsePieces(tscLine)).code ELSE ""
    /\ dpc' = IF IsSome(parser_parse(tscLine)) THEN "fmt" ELSE "passed"
    /\ UNCHANGED <<tscLine, diskText, colorize, span, suggestion, report, lookups, underflow>>
    /\ UNCHANGED <<src, position, line, column, tokens, pc, passes, previous>>
    /\ UNCHANGED <<variant, cpc, hops>>
    /\ UNCHANGED <<fnVars, loopVars>>

\* error::parse(line): a diagnostic goes on to ErrorCode::suggest.
ErrorParse ==
    /\ dpc = "line"
    /\ err' = parse(tscLine)
    /\ code' = IF IsSome(ParsePieces(tscLine)) THEN Unwrap(ParsePieces(tscLine)).code ELSE ""
    /\ dpc' = IF IsSome(parse(tscLine)) THEN "suggest" ELSE "skipped"
    /\ UNCHANGED <<tscLine, diskText, colorize, span, suggestion, report, lookups, underflow>>
    /\ UNCHANGED <<src, position, line, column, tokens, pc, passes, previous>>
    /\ UNCHANGED <<variant, cpc, hops>>
    /\ UNCHANGED <<fnVars, loopVars>>

\* fmt up to the tokens: the file is read (an absent file reads as empty);
\* an empty source ends fmt with fmt_simple.
FmtRead ==
    /\ dpc = "fmt"
    /\ src' = diskText
    /\ IF diskText = ""
       THEN /\ report' = Some(SimpleOutput(Unwrap(err)))
            /\ dpc' = "done"
            /\ UNCHANGED tokens
       ELSE /\ tokens' = Tokenize(diskText)
            /\ dpc' = "span"
            /\ UNCHANGED report
    /\ UNCHANGED <<tscLine, diskText, colorize, err, span, suggestion, lookups, underflow>>
    /\ UNCHANGED <<position, line, column, pc, passes, previous, codeVars>>
    /\ UNCHANGED <<fnVars, loopVars>>

\* The span search of fmt: the token loop, then the walk over the source
\* when no token matched. When err.column - 1 is computed below zero, a
\* build without overflow checks goes on with the wrapped value.
FmtSpan ==
    /\ dpc = "span"
    /\ span' = Some(ComputedSpan(src, tokens, Unwrap(err)))
    /\ underflow' = SpanUnderflows(src, tokens, Unwrap(err))
    /\ dpc' = "build"
    /\ UNCHANGED <<tscLine, diskText, colorize, err, suggestion, report, lookups>>
    /\ UNCHANGED <<tokVars, codeVars>>
    /\ UNCHANGED <<fnVars, loopVars>>

\* The span search of fmt in a build with overflow checks, when
\* err.column - 1 is computed below zero: the program panics.
FmtSpanPanic ==
    /\ dpc = "span"
    /\ SpanUnderflows(src, tokens, Unwrap(err))
    /\ underflow' = TRUE
    /\ dpc' = "panicked"
    /\ UNCHANGED <<tscLine, diskText, colorize, err, span, suggestion, report, lookups>>
    /\ UNCHANGED <<tokVars, codeVars>>
    /\ UNCHANGED <<fnVars, loopVars>>

\* Suggestion::build(err, &tokens) in fmt.
FmtBuild ==
    /\ dpc = "build"
    /\ \E order \in IterationOrders(ExpectedKeys(Unwrap(err).message)) :
          suggestion' = build(Unwrap(err), tokens, order)
    /\ dpc' = "render"
    /\ UNCHANGED <<tscLine, diskText, colorize, err, span, report, lookups, underflow>>
    /\ UNCHANGED <<tokVars, codeVars>>
    /\ UNCHANGED <<fnVars, loopVars>>

\* The rest of fmt: the report with its labels and help.
FmtRender ==
    /\ dpc = "render"
    /\ report' = Some(ReportOutput(Unwrap(err), Unwrap(span), suggestion))
    /\ dpc' = "done"
    /\ UNCHANGED <<tscLine, diskText, colorize, err, span, suggestion, lookups, underflow>>
    /\ UNCHANGED <<tokVars, codeVars>>
    /\ UNCHANGED <<fnVars, loopVars>>

\* Suggest with the Unsupported arm giving the stock suggestion.
Suggest_UnsupportedStock ==
    /\ dpc = "suggest"
    /\ src' = diskText
    /\ tokens' = Tokenize(diskText)
    /\ \E order \in IterationOrders(ExpectedKeys(Unwrap(err).message)) :
          suggestion' = IF Unwrap(err).code.tag = "Unsupported"
                        THEN suggest_missing_return(Unwrap(err))
                        ELSE suggest(Unwrap(err), Tokenize(diskText), order)
    /\ lookups' = TokenQueries(Unwrap(err), Tokenize(diskText))
    /\ dpc' = "suggested"
    /\ UNCHANGED <<tscLine, diskText, colorize, err, span, report, underflow>>
    /\ UNCHANGED <<position, line, column, pc, passes, previous, codeVars>>
    /\ UNCHANGED <<fnVars, loopVars>>

\* err.code.suggest(&err, &tokens), the tokens being those of the source.
Suggest ==
    /\ dpc = "suggest"
    /\ src' = diskText
    /\ tokens' = Tokenize(diskText)
    /\ \E order \in IterationOrders(ExpectedKeys(Unwrap(err).message)) :
          suggestion' = suggest(Unwrap(err), Tokenize(diskText), order)
    /\ lookups' = TokenQueries(Unwrap(err), Tokenize(diskText))
    /\ dpc' = "suggested"
    /\ UNCHANGED <<tscLine, diskText, colorize, err, span, report, underflow>>
    /\ UNCHANGED <<position, line, column, pc, passes, previous, codeVars>>
    /\ UNCHANGED <<fnVars, loopVars>>

DiagNext ==
    \/ ParserParse
    \/ ErrorParse
    \/ FmtRead
    \/ FmtSpan
    \/ FmtSpanPanic
    \/ FmtBuild
    \/ FmtRender
    \/ Suggest

DiagSpec == DiagInit /\ [][DiagNext]_vars

-----------------------------------------------------------------------------
(* Properties of the diagnostic pipeline *)

\* C5: every lookup of a token from a diagnostic position queries the
\* tokens at the diagnostic's line and at its column less one: once a
\* handler of ErrorCode::suggest has run, every position it has queried is
\* that one.
C5_LookupsAdjusted ==
    dpc = "suggested" =>
        \A i \in 1..Len(lookups) : lookups[i] = AdjustedPosition(Unwrap(err))

\* The keys of the expected object of a TS2345 message in the order in which
\* the object type declares them.
DeclaredOrder(msg) ==
    LET ins == Insertions(Unwrap(extract_object_type(msg, "to parameter of type '")))
        firsts == { i \in 1..Len(ins) : \A j \in 1..(i - 1) : ins[j][1][1] # ins[i][1][1] }
    IN  [n \in 1..Cardinality(firsts) |->
            ins[CHOOSE i \in firsts : Cardinality({ j \in firsts : j <= i }) = n][1][1]]

\* C6: the mismatches parse_ts2345_error returns follow the order in which
\* the expected object declares its properties, so the suggestion lines of a
\* TS2345 diagnostic are those of the mismatches in that order, whenever the
\* message is handled.
C6_DeclaredOrder ==
    ( /\ dpc = "suggested"
      /\ Unwrap(err).code.tag = "InlineTypeMismatch"
      /\ ExpectedKeys(Unwrap(err).message) # {}
      /\ ~Contains(Unwrap(err).message, "Target signature") )
    => /\ IsSome(suggestion)
       /\ Unwrap(suggestion).suggestions =
             MismatchTexts(parse_ts2345_error(Unwrap(err).message,
                                              DeclaredOrder(Unwrap(err).message)))

\* Lines of the form F(L,C): error TS2322: Type 'X' is not assignable to
\* type 'Y'. with X = string and Y = number.
TypeMismatchLines ==
    { DiagnosticLine(f, Decimal(l), Decimal(c), "TS2322",
                     "Type 'string' is not assignable to type 'number'.") :
        f \in {"a.ts", "src/(app)/page.ts"}, l \in 0..MaxLine, c \in 0..MaxColumn }

\* C7: a line F(L,C): error TS2322: Type 'X' is not assignable to type 'Y'.
\* is never passed over by parse, and dispatching it gives a suggestion whose
\* first line contains X and Y, whatever the tokens.
C7_TypeMismatchSuggestion ==
    tscLine \in TypeMismatchLines =>
        /\ dpc # "skipped"
        /\ dpc = "suggested" =>
              /\ IsSome(suggestion)
              /\ Unwrap(suggestion).suggestions # <<>>
              /\ Contains(Unwrap(suggestion).suggestions[1], "string")
              /\ Contains(Unwrap(suggestion).suggestions[1], "number")

\* C8: a code string that is in no classification table is classified as
\* Unsupported, by ErrorCode::from_str and by CommonErrors::from_code alike,
\* and dispatching an Unsupported diagnostic, with ErrorCode::suggest or
\* with Suggestion::build, gives no suggestion whatever the diagnostic and
\* the tokens.
C8_UnsupportedYieldsNone ==
    /\ (dpc \in {"suggest", "suggested"} /\ code \notin DOMAIN FromStrTable)
          => Unwrap(err).code.tag = "Unsupported"
    /\ (dpc \in {"fmt", "span", "build", "render", "done", "panicked"}
          /\ code \notin DOMAIN FromCodeTable)
          => Unwrap(err).code.tag = "Unsupported"
    /\ (dpc \in {"suggested", "render", "done"} /\ Unwrap(err).code.tag = "Unsupported")
          => suggestion = None

\* A diagnostic of a code in no table has been dispatched over the tokens
\* of a source text and has no suggestion.
C8_Witness ==
    /\ dpc = "suggested"
    /\ code = "TS9999"
    /\ Unwrap(err).code = Unsupported(9999)
    /\ Unwrap(err).message = "Type 'string' is not assignable to type 'number'."
    /\ tokens # <<>>
    /\ suggestion = None

\* C9: no operation crashes on unexpected input; for a diagnostic at column
\* 0 no computation of column - 1 goes below zero, so fmt neither panics nor
\* goes on with a wrapped value.
C9_NoUnderflow == ~underflow /\ dpc # "panicked"

\* C10: when the handler has returned a suggestion with a span of its own,
\* the labels of the report fmt builds are at that span, not at the span fmt
\* computed from the line and column.
C10_ExplicitSpan ==
    (dpc = "done" /\ IsSome(suggestion) /\ IsSome(Unwrap(suggestion).span))
    => \A i \in 1..Len(Unwrap(report).labels) :
          Unwrap(report).labels[i].span = Unwrap(Unwrap(suggestion).span)

-----------------------------------------------------------------------------
(* The functions of src/src/message_parser.rs, each called once with       *)
(* arguments drawn from bounded sets.                                      *)

\* The pieces messages are made of: the word type before a quoted value,
\* capitalized or not, a word that only ends like it, the end of the word
\* alone, and the apostrophe alone or before a space.
MsgPieces == {"Type 'A", "type 'B", "hype 'C", "ype 'D", "'", "' "}

\* The texts made of exactly n pieces.
RECURSIVE PieceTexts(_)
PieceTexts(n) ==
    IF n = 0 THEN {""}
    ELSE { t \o p : t \in PieceTexts(n - 1), p \in MsgPieces }

\* Type names, free of apostrophes.
TypeNames == {"", "string", "number", "ype ", "{ a: string; }", "Type"}

\* The message of TS2322 for two type names.
NotAssignable(X, Y) == "Type '" \o X \o "' is not assignable to type '" \o Y \o "'."

\* The messages the functions are called with: the texts of up to MaxPieces
\* pieces, the messages of the compiler and those of TS2322 for every two
\* type names.
MsgTexts ==
    UNION { PieceTexts(n) : n \in 0..MaxPieces } \cup Messages
        \cup { NotAssignable(X, Y) : X \in TypeNames, Y \in TypeNames }

\* The types named in the messages of TS2345.
ObjectTypes ==
    { "string", "{ a: string; }", "{ a: number; }", "{ a: number; b: string; }",
      "{ b: number; a: string }", "{ c; a: string; a: number; }" }

\* Texts like the messages of TS2345: each anchor there or not or spelled
\* otherwise, each type closed by an apostrophe or not, the anchors in
\* either order.
Ts2345Texts ==
    LET provided == { a \o t \o q : a \in {"Argument of type '", "argument of type '", ""},
                                    t \in ObjectTypes, q \in {"'", ""} }
        expected == { a \o t \o q : a \in {"to parameter of type '", "to parameter of type ", ""},
                                    t \in ObjectTypes, q \in {"'", ""} }
    IN  { x \o " is not assignable " \o y \o "." : x \in provided, y \in expected }
        \cup { y \o " is not assignable " \o x \o "." : x \in provided, y \in expected }

\* Texts like the messages that count arguments: each marker there or not,
\* each count a number or not.
CountTexts ==
    { head \o marker \o n \o word \o sep \o g \o tail :
        head \in {"Target signature provides too few arguments. ",
                  "Target signature provides too many arguments. ", ""},
        marker \in {"Expected ", "expected ", ""},
        n \in {"2", "0", " 3", "x", "", "4294967296"},
        word \in {" or more", " arguments", ""},
        sep \in {", but got ", ", "},
        g \in {"1", "3", "", "y"},
        tail \in {".", ""} }

\* The calls made: the function with its arguments.
MsgCalls ==
    [fn : {"extract_quoted_value"}, msg : MsgTexts, occurrence : 0..MaxOccurrence]
    \cup [fn : {"extract_first_quoted", "extract_second_quoted", "extract_third_quoted",
                "parse_ts2322_error", "parse_property_missing_error"},
          msg : MsgTexts]
    \cup [fn : {"parse_ts2345_error", "suggest_inline_type_mismatch"},
          msg : Ts2345Texts \cup CountTexts \cup Messages]
    \cup [fn : {"suggest_missing_parameters"}, msg : CountTexts \cup Messages,
          toks : {<<>>, Tokenize("f(a)")}]

MsgInit ==
    /\ TokIdle
    /\ LoopIdle
    /\ CodeIdle
    /\ DiagIdle
    /\ callee = "none"
    /\ given \in MsgCalls
    /\ returned = None

ExtractQuotedValue ==
    /\ callee = "none"
    /\ given.fn = "extract_quoted_value"
    /\ callee' = given.fn
    /\ returned' = extract_quoted_value(given.msg, given.occurrence)
    /\ UNCHANGED <<given, tokVars, codeVars, diagVars, loopVars>>

ExtractFirstQuoted ==
    /\ callee = "none"
    /\ given.fn = "extract_first_quoted"
    /\ callee' = given.fn
    /\ returned' = extract_first_quoted(given.msg)
    /\ UNCHANGED <<given, tokVars, codeVars, diagVars, loopVars>>

ExtractSecondQuoted ==
    /\ callee = "none"
    /\ given.fn = "extract_second_quoted"
    /\ callee' = given.fn
    /\ returned' = extract_second_quoted(given.msg)
    /\ UNCHANGED <<given, tokVars, codeVars, diagVars, loopVars>>

ExtractThirdQuoted ==
    /\ callee = "none"
    /\ given.fn = "extract_third_quoted"
    /\ callee' = given.fn
    /\ returned' = extract_third_quoted(given.msg)
    /\ UNCHANGED <<given, tokVars, codeVars, diagVars, loopVars>>

ParseTs2322Error ==
    /\ callee = "none"
    /\ given.fn = "parse_ts2322_error"
    /\ callee' = given.fn
    /\ returned' = parse_ts2322_error(given.msg)
    /\ UNCHANGED <<given, tokVars, codeVars, diagVars, loopVars>>

ParsePropertyMissingError ==
    /\ callee = "none"
    /\ given.fn = "parse_property_missing_error"
    /\ callee' = given.fn
    /\ returned' = parse_property_missing_error(given.msg)
    /\ UNCHANGED <<given, tokVars, codeVars, diagVars, loopVars>>

\* parse_ts2345_error(msg), the HashMap being iterated in some order.
ParseTs2345Error ==
    /\ callee = "none"
    /\ given.fn = "parse_ts2345_error"
    /\ callee' = given.fn
    /\ \E order \in IterationOrders(ExpectedKeys(given.msg)) :
          returned' = parse_ts2345_error(given.msg, order)
    /\ UNCHANGED <<given, tokVars, codeVars, diagVars, loopVars>>

\* suggest_inline_type_mismatch(&err) for a diagnostic TS2345 with the
\* message.
SuggestInlineTypeMismatch ==
    /\ callee = "none"
    /\ given.fn = "suggest_inline_type_mismatch"
    /\ callee' = given.fn
    /\ \E order \in IterationOrders(ExpectedKeys(given.msg)) :
          returned' = suggest_inline_type_mismatch(
                         TsError("a.ts", 1, 1, Known("InlineTypeMismatch"), given.msg), order)
    /\ UNCHANGED <<given, tokVars, codeVars, diagVars, loopVars>>

\* suggest_missing_parameters(&err, &tokens) for a diagnostic TS2554 with
\* the message, at the start of the source.
SuggestMissingParameters ==
    /\ callee = "none"
    /\ given.fn = "suggest_missing_parameters"
    /\ callee' = given.fn
    /\ returned' = suggest_missing_parameters(
                      TsError("a.ts", 1, 1, Known("MissingParameters"), given.msg),
                      given.toks)
    /\ UNCHANGED <<given, tokVars, codeVars, diagVars, loopVars>>

MsgNext ==
    \/ ExtractQuotedValue
    \/ ExtractFirstQuoted
    \/ ExtractSecondQuoted
    \/ ExtractThirdQuoted
    \/ ParseTs2322Error
    \/ ParsePropertyMissingError
    \/ ParseTs2345Error
    \/ SuggestInlineTypeMismatch
    \/ SuggestMissingParameters

MsgSpec == MsgInit /\ [][MsgNext]_vars

\* The places of a message where "ype '" stands after at least one
\* character, as 1-based indices of the y.
TypeMarks(msg) == { i \in Occurrences(msg, "ype '") : i > 1 }

\* Those of them where the character before is t or T.
WordTypeMarks(msg) == { i \in TypeMarks(msg) : SubSeq(msg, i - 1, i - 1) \in {"t", "T"} }

\* The pair of quoted values read from the mark at i: the value up to the
\* next apostrophe, then the value between the next two apostrophes (up to
\* the end when the last is missing); None when no apostrophe opens a second
\* value.
QuotedPairAt(msg, i) ==
    IF Find(AfterQuote(From(msg, i + 5)), "'") = 0 THEN None
    ELSE Some(<<UpToQuote(From(msg, i + 5)),
                UpToQuote(AfterQuote(AfterQuote(From(msg, i + 5))))>>)

\* C11 (as amended): parse_ts2322_error selects the first occurrence of
\* "ype '" that stands after at least one character, whatever that
\* character is, and returns the quoted value there with the next quoted
\* value after it; it returns None when there is no such occurrence or no
\* second quoted value.
C11_FirstOccurrence ==
    callee = "parse_ts2322_error" =>
        returned = IF TypeMarks(given.msg) = {} THEN None
                   ELSE QuotedPairAt(given.msg, Min(TypeMarks(given.msg)))

\* A message with two occurrences has been parsed at the first one.
C11_Witness ==
    /\ callee = "parse_ts2322_error"
    /\ given.msg = "Type 'A' type 'B'"
    /\ returned = Some(<<"A", "B">>)

\* C11 (as stated): parse_ts2322_error selects the last occurrence of
\* "ype '" preceded by t or T and returns the quoted value there with the
\* next quoted value after it, None when either is absent.
C11_LastOccurrence ==
    callee = "parse_ts2322_error" =>
        returned = IF WordTypeMarks(given.msg) = {} THEN None
                   ELSE QuotedPairAt(given.msg, Max(WordTypeMarks(given.msg)))

\* C12: for a message Type 'X' is not assignable to type 'Y'. with X and
\* Y free of apostrophes, parse_ts2322_error returns Some((X, Y)).
C12_NotAssignablePair ==
    callee = "parse_ts2322_error" =>
        \A X \in TypeNames, Y \in TypeNames :
            given.msg = NotAssignable(X, Y) => returned = Some(<<X, Y>>)

\* Such a message, with an object type as X, has been parsed.
C12_Witness ==
    /\ callee = "parse_ts2322_error"
    /\ given.msg = NotAssignable("{ a: string; }", "Type")
    /\ returned = Some(<<"{ a: string; }", "Type">>)

\* The place of the k-th apostrophe of a message, counted from 1.
KthQuote(msg, k) ==
    CHOOSE i \in Occurrences(msg, "'") :
        Cardinality({ j \in Occurrences(msg, "'") : j <= i }) = k

\* The k-th segment, counted from 0, of a message cut at its apostrophes:
\* the text after the k-th apostrophe (from the start for k = 0) up to the
\* next one (up to the end when there is none); None when the message has
\* fewer than k apostrophes.
Segment(msg, k) ==
    IF k > Cardinality(Occurrences(msg, "'")) THEN None
    ELSE Some(SubSeq(msg,
                     IF k = 0 THEN 1 ELSE KthQuote(msg, k) + 1,
                     IF k = Cardinality(Occurrences(msg, "'")) THEN Len(msg)
                     ELSE KthQuote(msg, k + 1) - 1))

\* C13: extract_quoted_value(msg, k) returns the k-th segment, counted from
\* 0, of msg cut at its apostrophes, None when msg has fewer than k
\* apostrophes; extract_first_quoted, extract_second_quoted and
\* extract_third_quoted return the text between the 1st and 2nd, the 3rd and
\* 4th, the 5th and 6th apostrophe: the 1st, 2nd and 3rd quoted substring.
C13_QuotedSegments ==
    /\ callee = "extract_quoted_value" => returned = Segment(given.msg, given.occurrence)
    /\ callee = "extract_first_quoted" => returned = Segment(given.msg, 1)
    /\ callee = "extract_second_quoted" => returned = Segment(given.msg, 3)
    /\ callee = "extract_third_quoted" => returned = Segment(given.msg, 5)

\* The third quoted substring of a message with three has been extracted.
C13_Witness ==
    /\ callee = "extract_third_quoted"
    /\ given.msg = "Property 'foo' does not exist on type 'Bar'. Did you mean 'food'?"
    /\ returned = Some("food")

-----------------------------------------------------------------------------
(* The occurrence indices of the dispatcher *)

\* The message of TS7053: the apostrophe of "can't" comes before the last
\* quoted name.
IndexMessage ==
    "Element implicitly has an 'any' type because expression of type 'string' can't be used to index type 'Obj'."

\* C14 as stated: once a diagnostic has been dispatched, every occurrence
\* index that the handler of its variant passes to extract_quoted_value is
\* odd.
C14_OddOccurrences ==
    (dpc = "suggested" /\ IsSome(err))
       => \A i \in DOMAIN QuotedOccurrences(Unwrap(err)) :
             QuotedOccurrences(Unwrap(err))[i] % 2 = 1

\* C14 as the code has it: every occurrence index that a handler passes is
\* odd but the third of the handler of TS7053, which is 6; on the message
\* of TS7053 the apostrophe of "can't" shifts the segments by one, and the
\* handler names the index type, the object quoted last and the implicit
\* type.
C14_OddButIndexedObject ==
    (dpc = "suggested" /\ IsSome(err)) =>
       /\ \A i \in DOMAIN QuotedOccurrences(Unwrap(err)) :
             \/ QuotedOccurrences(Unwrap(err))[i] % 2 = 1
             \/ /\ Unwrap(err).code.tag = "ElementImplicitAnyInvalidIndexTypeForObject"
                /\ i = 3
                /\ QuotedOccurrences(Unwrap(err))[i] = 6
       /\ (Unwrap(err).code.tag = "ElementImplicitAnyInvalidIndexTypeForObject"
             /\ Unwrap(err).message = IndexMessage)
          => /\ IsSome(suggestion)
             /\ Unwrap(suggestion).suggestions =
                   <<Format("^{}^ can not be used as an index to access ^{}^ - therefore element is implicitly ^{}^.",
                            <<red_bold("string"), red_bold("Obj"), red_bold("any")>>)>>

\* The diagnostic TS7053 has been dispatched and its suggestion names the
\* object quoted last in the message, which is the sixth segment.
C14_Witness ==
    /\ dpc = "suggested"
    /\ code = "TS7053"
    /\ Unwrap(err).code.tag = "ElementImplicitAnyInvalidIndexTypeForObject"
    /\ Unwrap(err).message = IndexMessage
    /\ QuotedOccurrences(Unwrap(err)) = <<1, 3, 6>>
    /\ extract_quoted_value(IndexMessage, 6) = Some("Obj")
    /\ extract_quoted_value(IndexMessage, 5) = Some("t be used to index type ")
    /\ IsSome(suggestion)

-----------------------------------------------------------------------------
(* parse_property_missing_error *)

\* C15: parse_property_missing_error returns the text between the last
\* occurrence of "type '" in the message and the first apostrophe after it,
\* and None when "type '" does not occur or no apostrophe follows its last
\* occurrence.
C15_LastTypeMarker ==
    callee = "parse_property_missing_error" =>
       IF Occurrences(given.msg, "type '") = {}
       THEN returned = None
       ELSE \/ /\ returned = None
               /\ \A j \in (Max(Occurrences(given.msg, "type '")) + 6)..Len(given.msg) :
                     SubSeq(given.msg, j, j) # "'"
            \/ \E j \in (Max(Occurrences(given.msg, "type '")) + 6)..Len(given.msg) :
                  /\ SubSeq(given.msg, j, j) = "'"
                  /\ \A k \in (Max(Occurrences(given.msg, "type '")) + 6)..(j - 1) :
                        SubSeq(given.msg, k, k) # "'"
                  /\ returned = Some(SubSeq(given.msg,
                                     Max(Occurrences(given.msg, "type '")) + 6, j - 1))

\* parse_property_missing_error has been applied to a message that names
\* two types and has returned the second.
C15_Witness ==
    /\ callee = "parse_property_missing_error"
    /\ given.msg = "Property 'x' is missing in type 'A' but required in type 'B'."
    /\ Cardinality(Occurrences(given.msg, "type '")) = 2
    /\ returned = Some("B")

-----------------------------------------------------------------------------
(* parse_ts2345_error *)

\* The marker occurs in the message.
AnchorPresent(msg, marker) == Contains(msg, marker)

\* The marker occurs in the message and an apostrophe follows its first
\* occurrence.
AnchorClosed(msg, marker) ==
    /\ Contains(msg, marker)
    /\ Contains(From(msg, Find(msg, marker) + Len(marker)), "'")

\* The text between the first occurrence of the marker and the apostrophe
\* after it.
AnchoredType(msg, marker) ==
    LET first == Find(msg, marker) + Len(marker)
    IN  SubSeq(msg, first, first + Find(From(msg, first), "'") - 2)

\* No property that both object types have is of two different types.
NoMismatch(provided_props, expected_props) ==
    \A key \in DOMAIN provided_props \cap DOMAIN expected_props :
       provided_props[key] = expected_props[key]

\* The suggestion of the TS2345 handler with the generic line.
GenericSuggestion ==
    Some(Suggestion(<<"Argument type does not match the expected parameter type.">>,
                    Some("Check the function arguments to ensure they match the expected parameter types."),
                    None))

\* C16 as stated: parse_ts2345_error returns None exactly when one of the
\* two anchor phrases does not occur in the message.
C16_NoneIffAnchorAbsent ==
    callee = "parse_ts2345_error" =>
       (returned = None <=>
           (~AnchorPresent(given.msg, "Argument of type '")
               \/ ~AnchorPresent(given.msg, "to parameter of type '")))

\* C16 as the code has it: parse_ts2345_error returns None exactly when one
\* of the two anchor phrases does not occur in the message or no apostrophe
\* follows its first occurrence; otherwise it returns the empty list
\* exactly when no property of both object types differs in type; and the
\* TS2345 handler returns the suggestion with the generic line in both
\* cases.
C16_NoneIffAnchorUnclosed ==
    /\ callee = "parse_ts2345_error" =>
          IF AnchorClosed(given.msg, "Argument of type '")
                /\ AnchorClosed(given.msg, "to parameter of type '")
          THEN /\ IsSome(returned)
               /\ (Unwrap(returned) = <<>> <=>
                     NoMismatch(
                        parse_object_properties(AnchoredType(given.msg, "Argument of type '")),
                        parse_object_properties(AnchoredType(given.msg, "to parameter of type '"))))
          ELSE returned = None
    /\ (callee = "suggest_inline_type_mismatch"
          /\ ~Contains(given.msg, "Target signature provides too "))
       => /\ IsSome(returned)
          /\ (returned = GenericSuggestion <=>
                \/ ~AnchorClosed(given.msg, "Argument of type '")
                \/ ~AnchorClosed(given.msg, "to parameter of type '")
                \/ NoMismatch(
                      parse_object_properties(AnchoredType(given.msg, "Argument of type '")),
                      parse_object_properties(AnchoredType(given.msg, "to parameter of type '"))))

\* parse_ts2345_error has been applied to a message with both anchors whose
\* object types share a property of one type, and has returned the empty
\* list.
C16_Witness ==
    /\ callee = "parse_ts2345_error"
    /\ given.msg = "Argument of type '{ a: number; }' is not assignable to parameter of type '{ a: number; b: string; }'."
    /\ returned = Some(<<>>)

-----------------------------------------------------------------------------
(* The functions of src/src/token_utils.rs, each applied once to the       *)
(* tokens of a source.                                                      *)

\* Pieces of sources with calls, and of sources with declarations.
CallPieces == {"g(", "f(a)", ", b", ")", "\n", "Ea"}
DeclPieces == {"const ", "x", ";", ":", "\n", "Ea "}

RECURSIVE PiecesJoined(_, _)
PiecesJoined(pieces, n) ==
    IF n = 0 THEN {""}
    ELSE { t \o p : t \in PiecesJoined(pieces, n - 1), p \in pieces }

CallSources == UNION { PiecesJoined(CallPieces, n) : n \in 0..MaxUtilPieces }
DeclSources == UNION { PiecesJoined(DeclPieces, n) : n \in 0..MaxUtilPieces }

\* The calls made: the function, the tokens of the source and the other
\* arguments.
UtilCalls ==
    { [fn |-> f, source |-> s, toks |-> Tokenize(s), line |-> l, column |-> c] :
        f \in {"find_token_at_position", "find_function_name_before"},
        s \in CallSources, l \in 1..MaxLine, c \in 0..MaxColumn }
    \cup
    { [fn |-> "find_identifier_after_keyword", source |-> s, toks |-> Tokenize(s),
       line |-> l, keyword |-> k] :
        s \in DeclSources, l \in 1..MaxLine, k \in {"const", "x"} }

UtilInit ==
    /\ TokIdle
    /\ LoopIdle
    /\ CodeIdle
    /\ DiagIdle
    /\ callee = "none"
    /\ given \in UtilCalls
    /\ returned = None

FindTokenAtPosition ==
    /\ callee = "none"
    /\ given.fn = "find_token_at_position"
    /\ callee' = given.fn
    /\ returned' = find_token_at_position(given.toks, given.line, given.column)
    /\ UNCHANGED <<given, tokVars, codeVars, diagVars, loopVars>>

FindFunctionNameBefore ==
    /\ callee = "none"
    /\ given.fn = "find_function_name_before"
    /\ callee' = given.fn
    /\ returned' = find_function_name_before(given.toks, given.line, given.column)
    /\ UNCHANGED <<given, tokVars, codeVars, diagVars, loopVars>>

FindIdentifierAfterKeyword ==
    /\ callee = "none"
    /\ given.fn = "find_identifier_after_keyword"
    /\ callee' = given.fn
    /\ returned' = find_identifier_after_keyword(given.toks, given.line, given.keyword)
    /\ UNCHANGED <<given, tokVars, codeVars, diagVars, loopVars>>

UtilNext ==
    \/ FindTokenAtPosition
    \/ FindFunctionNameBefore
    \/ FindIdentifierAfterKeyword

UtilSpec == UtilInit /\ [][UtilNext]_vars

\* The parentheses left open by the tokens before the position, innermost
\* last: the loop is about to visit the i-th token.
RECURSIVE OpenParens(_, _, _, _, _)
OpenParens(toks, l, c, i, open) ==
    IF i > Len(toks) THEN open
    ELSE IF toks[i].line > l \/ (toks[i].line = l /\ toks[i].column >= c)
    THEN OpenParens(toks, l, c, i + 1, open)
    ELSE IF toks[i].raw = "("
    THEN OpenParens(toks, l, c, i + 1, Append(open, i))
    ELSE IF toks[i].raw = ")" /\ open # <<>>
    THEN OpenParens(toks, l, c, i + 1, SubSeq(open, 1, Len(open) - 1))
    ELSE OpenParens(toks, l, c, i + 1, open)

\* The nearest Identifier token before the i-th token, None without one.
IdentifierBefore(toks, i) ==
    IF { j \in 1..(i - 1) : toks[j].kind = "Identifier" } = {} THEN None
    ELSE Some(toks[Max({ j \in 1..(i - 1) : toks[j].kind = "Identifier" })])

\* The call target of the call that encloses the position: the nearest
\* Identifier before the nearest parenthesis left open.
CallTarget(toks, open) ==
    IF open = <<>> THEN None ELSE IdentifierBefore(toks, open[Len(open)])

\* C17: find_function_name_before returns the nearest Identifier token
\* before the nearest "(" that no ")" before the position closes, and None
\* when there is no such parenthesis or no Identifier before it.
C17_EnclosingCall ==
    callee = "find_function_name_before" =>
       returned = CallTarget(given.toks,
                             OpenParens(given.toks, given.line, given.column, 1, <<>>))

\* The i-th token is at the line and its characters cover the column.
Covers(token, l, c) ==
    /\ token.line = l
    /\ token.column <= c
    /\ c < token.column + Len(token.raw)

\* C18: find_token_at_position returns the first token in sequence order
\* that is at the line and whose characters cover the column, and None
\* when no token is.
C18_FirstCovering ==
    callee = "find_token_at_position" =>
       IF \A i \in DOMAIN given.toks : ~Covers(given.toks[i], given.line, given.column)
       THEN returned = None
       ELSE \E i \in DOMAIN given.toks :
               /\ Covers(given.toks[i], given.line, given.column)
               /\ \A j \in 1..(i - 1) : ~Covers(given.toks[j], given.line, given.column)
               /\ returned = Some(given.toks[i])

\* find_token_at_position has found the token of two characters and three
\* bytes at its second character.
C18_Witness ==
    /\ callee = "find_token_at_position"
    /\ given.source = "g(Ea, b"
    /\ given.line = 1
    /\ given.column = 3
    /\ IsSome(returned)
    /\ Unwrap(returned).raw = "Ea"
    /\ Unwrap(returned).column = 2

\* The token after the first keyword of the line that is at the line and
\* whose text is not empty, not ";" or ":" and none of the texts excluded:
\* its text and its byte range, None without one.
NextAfterKeyword(toks, l, keyword, excluded) ==
    LET seen == { i \in 1..Len(toks) : toks[i].line = l /\ toks[i].raw = keyword }
        next == { j \in 1..Len(toks) :
                    /\ seen # {}
                    /\ j > Min(seen)
                    /\ toks[j].line = l
                    /\ toks[j].raw \notin ({"", ";", ":"} \cup excluded) }
    IN  IF next = {} THEN None
        ELSE Some(<<toks[Min(next)].raw,
                    [start |-> toks[Min(next)].start, end |-> toks[Min(next)].end]>>)

\* C19 as stated: find_identifier_after_keyword returns the first token
\* after the keyword on the line whose text is not empty and neither ";"
\* nor ":", and None without one.
C19_NextToken ==
    callee = "find_identifier_after_keyword" =>
       returned = NextAfterKeyword(given.toks, given.line, given.keyword, {})

\* C19 as the code has it: find_identifier_after_keyword returns the first
\* token after the keyword on the line whose text is not empty, neither
\* ";" nor ":" and not the keyword again, with its byte range, and None
\* without one; a token of another line is never returned.
C19_NextTokenNotKeyword ==
    callee = "find_identifier_after_keyword" =>
       /\ returned = NextAfterKeyword(given.toks, given.line, given.keyword,
                                      {given.keyword})
       /\ IsSome(returned) =>
             \E i \in DOMAIN given.toks :
                /\ given.toks[i].line = given.line
                /\ given.toks[i].raw = Unwrap(returned)[1]
                /\ given.toks[i].start = Unwrap(returned)[2].start

\* find_identifier_after_keyword has passed over the keyword and a colon,
\* and has returned the name of two characters with its byte range.
C19_Witness ==
    /\ callee = "find_identifier_after_keyword"
    /\ given.source = "const :Ea "
    /\ given.line = 1
    /\ given.keyword = "const"
    /\ returned = Some(<<"Ea", [start |-> 7, end |-> 10]>>)

-----------------------------------------------------------------------------
(* The argument counts of the handlers *)

\* The text before the first occurrence of the marker, all of it without
\* one.
BeforeMarker(text, marker) ==
    IF Find(text, marker) = 0 THEN text ELSE SubSeq(text, 1, Find(text, marker) - 1)

\* The text after the first occurrence of the marker and before the next.
AfterMarker(text, marker) ==
    BeforeMarker(From(text, Find(text, marker) + Len(marker)), marker)

\* The integer after "Expected " and before the word, None when the marker
\* is missing or the text between is no integer of 32 bits.
CountExpected(msg, word) ==
    IF ~Contains(msg, "Expected ") THEN None
    ELSE ParseUnsigned(Trim(BeforeMarker(AfterMarker(msg, "Expected "), word)), U32Max)

\* The integer after "but got " and before the next ".", None when a
\* marker is missing or the text between is no integer of 32 bits.
CountGot(msg) ==
    IF ~Contains(msg, "Expected ") \/ ~Contains(AfterMarker(msg, "Expected "), "but got ")
    THEN None
    ELSE ParseUnsigned(
            Trim(BeforeMarker(AfterMarker(AfterMarker(msg, "Expected "), "but got "), ".")),
            U32Max)

\* The suggestion of the TS2345 handler for too few arguments with the two
\* counts, 0 standing for a count not parsed.
TooFewSuggestion(expected, got) ==
    Some(Suggestion(
       <<IF expected > 0 /\ got > 0
         THEN "The callback function has " \o Decimal(expected)
                 \o " parameters, but the signature only accepts " \o Decimal(got) \o "."
         ELSE "The callback function has too many parameters for the expected signature.">>,
       Some("Remove the extra parameters from the callback function to match the expected signature."),
       None))

\* The suggestion line of the TS2554 handler for the function name and the
\* two counts.
MissingParametersLine(fn_name, expected, got) ==
    IF IsSome(expected) /\ IsSome(got) /\ Unwrap(got) < Unwrap(expected)
    THEN "Function ^" \o red_bold(fn_name) \o "^ expects " \o Decimal(Unwrap(expected))
            \o " arguments but only received " \o Decimal(Unwrap(got)) \o "."
    ELSE IF IsSome(expected) /\ IsSome(got) /\ Unwrap(got) > Unwrap(expected)
    THEN "Function ^" \o red_bold(fn_name) \o "^ expects " \o Decimal(Unwrap(expected))
            \o " arguments but received " \o Decimal(Unwrap(got)) \o "."
    ELSE "Check if all required arguments are provided when invoking " \o red_bold(fn_name)

\* C20: the TS2345 handler for too few arguments reads the expected count
\* after "Expected " and before " or more" and the actual count after
\* "but got " and before the next ".", a count not parsed being 0; the
\* TS2554 handler reads the expected count after "Expected " and before
\* " argument" and the actual count alike, a count not parsed being None;
\* both return a suggestion whatever the counts are.
C20_CountsParsed ==
    /\ (callee = "suggest_inline_type_mismatch"
          /\ Contains(given.msg, "Target signature provides too few arguments"))
       => returned = TooFewSuggestion(UnwrapOr(CountExpected(given.msg, " or more"), 0),
                                      UnwrapOr(CountGot(given.msg), 0))
    /\ callee = "suggest_missing_parameters"
       => /\ IsSome(returned)
          /\ Unwrap(returned).suggestions =
                <<MissingParametersLine(
                     MissingParametersFnName(
                        TsError("a.ts", 1, 1, Known("MissingParameters"), given.msg),
                        given.toks),
                     CountExpected(given.msg, " argument"),
                     CountGot(given.msg))>>

\* The TS2554 handler has read the counts 2 and 1 from the message and
\* names them in its suggestion.
C20_Witness ==
    /\ callee = "suggest_missing_parameters"
    /\ given.msg = "Expected 2 arguments, but got 1."
    /\ given.toks = <<>>
    /\ CountExpected(given.msg, " argument") = Some(2)
    /\ CountGot(given.msg) = Some(1)
    /\ returned = Some(Suggestion(
          <<"Function ^" \o red_bold("function") \o "^ expects 2 arguments but only received 1.">>,
          Some("Add the missing argument to match the expected signature."),
          None))

-----------------------------------------------------------------------------
(* The two dispatchers on one diagnostic *)

\* C21: once ErrorCode::suggest has dispatched a diagnostic that both
\* classifications give the same kind, it has returned a suggestion
\* whenever Suggestion::build returns one for the diagnostic over the same
\* tokens, a placeholder word standing for each quoted value or token that
\* is missing.
C21_SuggestionNotDropped ==
    (/\ dpc = "suggested"
     /\ IsSome(parser_parse(tscLine))
     /\ Unwrap(parser_parse(tscLine)).code.tag = Unwrap(err).code.tag)
    => \A order \in IterationOrders(ExpectedKeys(Unwrap(err).message)) :
          IsSome(build(Unwrap(parser_parse(tscLine)), tokens, order))
             => IsSome(suggestion)

-----------------------------------------------------------------------------
(* The spans of the suggestions *)

\* C22: a suggestion of ErrorCode::suggest for an uninitialized constant
\* has the byte range of the name after "const" on the diagnostic's line
\* as its span, one for an invalid index signature has the byte range of
\* the token at the diagnostic's line and its column less one (not below
\* zero), and a suggestion of any other kind has no span.
C22_SpanOfNamedToken ==
    (dpc = "suggested" /\ IsSome(suggestion)) =>
       CASE Unwrap(err).code.tag = "UninitializedConst" ->
               /\ IsSome(NextAfterKeyword(tokens, Unwrap(err).line, "const", {"const"}))
               /\ Unwrap(suggestion).span =
                     Some(Unwrap(NextAfterKeyword(tokens, Unwrap(err).line, "const",
                                                  {"const"}))[2])
         [] Unwrap(err).code.tag = "InvalidIndexTypeSignature" ->
               \E i \in DOMAIN tokens :
                  /\ Covers(tokens[i], Unwrap(err).line,
                            IF Unwrap(err).column = 0 THEN 0 ELSE Unwrap(err).column - 1)
                  /\ Unwrap(suggestion).span =
                        Some([start |-> tokens[i].start, end |-> tokens[i].end])
         [] OTHER -> Unwrap(suggestion).span = None

\* The diagnostic of an uninitialized constant at the second line of the
\* source has been dispatched, and the span of its suggestion is the byte
\* range of the name y.
C22_Witness ==
    /\ dpc = "suggested"
    /\ Unwrap(err).code.tag = "UninitializedConst"
    /\ Unwrap(err).line = 2
    /\ diskText = "f(a, b)\nconst y = 1;"
    /\ IsSome(suggestion)
    /\ Unwrap(suggestion).span = Some([start |-> 14, end |-> 15])

-----------------------------------------------------------------------------
(* The rendering of Unsupported *)

\* C23: as_str renders every Unsupported(n) as the one text
\* "TS<unsupported>", which is no code of the table and has no number
\* after "TS"; a classified code string that gave Unsupported is therefore
\* not given back, and classifying the rendered text gives Unsupported.
C23_UnsupportedSentinel ==
    [][ /\ (cpc = "var" /\ cpc' = "str" /\ Unwrap(variant).tag = "Unsupported")
           => /\ code' = "TS<unsupported>"
              /\ code' \notin DOMAIN FromStrTable
              /\ ~AllDigits(From(code', 3))
              /\ (hops >= 1 /\ code # "TS<unsupported>") => code' # code
        /\ (cpc = "str" /\ cpc' = "var" /\ code = "TS<unsupported>")
           => Unwrap(variant').tag = "Unsupported" ]_vars

\* A code string has been classified as Unsupported, rendered as the
\* sentinel and classified again.
C23_Witness ==
    /\ cpc = "var"
    /\ hops = 3
    /\ code = "TS<unsupported>"
    /\ variant = Some(Unsupported(0))

-----------------------------------------------------------------------------
(* The lines and columns of the tokens *)

\* The source text before the token.
TextBefore(s, token) == SubSeq(s, 1, CharsBefore(s, token.start))

\* The line and the column of the position after a text: 1 and the number
\* of its newlines, and the number of characters after its last newline.
LineAfter(text) == 1 + Cardinality(Occurrences(text, "\n"))
ColumnAfter(text) == Len(text) - RFind(text, "\n")

\* C24: the line of every token is 1 and the number of newlines in the
\* source before the token, and its column is the number of characters
\* between the last of these newlines, or the start of the source, and the
\* token.
C24_LineAndColumn ==
    \A i \in 1..Len(tokens) :
        /\ tokens[i].line = LineAfter(TextBefore(src, tokens[i]))
        /\ tokens[i].column = ColumnAfter(TextBefore(src, tokens[i]))

-----------------------------------------------------------------------------
(* The literals that a quote character starts *)

\* The number of backslashes in a row right before the k-th character.
BackslashesBefore(text, k) ==
    Max({ n \in 0..(k - 1) : \A j \in (k - n)..(k - 1) : SubSeq(text, j, j) = "\\" })

\* The places of the text at which the quote closes a literal: the quote
\* character is there and is not the character following a backslash that
\* the literal consumed, as is the case after an even number of
\* backslashes in a row.
ClosingQuotes(text, quote) ==
    { k \in 1..Len(text) :
        SubSeq(text, k, k) = quote /\ BackslashesBefore(text, k) % 2 = 0 }

\* The part of the text after an opening quote that the literal holds: up
\* to the first closing quote, all of it without one.
LiteralRest(text, quote) ==
    IF ClosingQuotes(text, quote) = {} THEN text
    ELSE SubSeq(text, 1, Min(ClosingQuotes(text, quote)))

\* C25: a token that starts at a quote character is a Literal that ends
\* right after the first later occurrence of the same quote character that
\* does not follow a backslash the literal consumed, and at the end of the
\* source without one; the run ends with the end of the source reached.
C25_LiteralExtent ==
    /\ \A i \in 1..Len(tokens) :
          CharAtIdx(tokens[i].raw, 1) \in {"\"", "'", Backtick} =>
             /\ tokens[i].kind = "Literal"
             /\ Tail(tokens[i].raw) =
                   LiteralRest(From(src, CharsBefore(src, tokens[i].start) + 2),
                               CharAtIdx(tokens[i].raw, 1))
    /\ pc = "done" => position = ByteLen(src)

\* A finished run over a literal that an apostrophe starts, that holds the
\* other quote character and that ends with the source right after a
\* backslash.
C25_Witness ==
    /\ pc = "done"
    /\ src = "'\"\\"
    /\ Len(tokens) = 1
    /\ tokens[1].kind = "Literal"
    /\ tokens[1].raw = src

-----------------------------------------------------------------------------
(* The tokens of one line *)

\* C26: the character ranges of two tokens of the same line do not
\* overlap, the earlier token ending at or before the column of the later
\* one; at most one token therefore covers a position, and the token that
\* find_token_at_position returns for a position is the only one covering it.
C26_UniqueMatch ==
    /\ \A i \in 1..Len(tokens) : \A j \in (i + 1)..Len(tokens) :
          tokens[i].line = tokens[j].line
             => tokens[i].column + Len(tokens[i].raw) <= tokens[j].column
    /\ \A l \in 1..(MaxSrcLen + 1) : \A c \in 0..MaxSrcLen :
          /\ Cardinality({ i \in 1..Len(tokens) : Covers(tokens[i], l, c) }) <= 1
          /\ \A i \in 1..Len(tokens) :
                Covers(tokens[i], l, c)
                   => find_token_at_position(tokens, l, c) = Some(tokens[i])

\* A finished run with a literal that holds a newline and a token after
\* it: both have the line 1, and the second is the only token at its
\* column.
C26_Witness ==
    /\ pc = "done"
    /\ src = "\"\n\"a"
    /\ Len(tokens) = 2
    /\ tokens[1].line = tokens[2].line
    /\ find_token_at_position(tokens, 1, 3) = Some(tokens[2])

-----------------------------------------------------------------------------
(* The texts of suggest_missing_parameters *)

\* "argument" for a difference of one, "arguments" for any other.
ArgumentWord(difference) == IF difference = 1 THEN "argument" ELSE "arguments"

\* The help line of the TS2554 handler for the function name and the two
\* counts.
MissingParametersHelp(fn_name, expected, got) ==
    IF IsSome(expected) /\ IsSome(got) /\ Unwrap(got) < Unwrap(expected)
    THEN "Add the missing " \o ArgumentWord(Unwrap(expected) - Unwrap(got))
            \o " to match the expected signature."
    ELSE IF IsSome(expected) /\ IsSome(got) /\ Unwrap(got) > Unwrap(expected)
    THEN "Remove the extra " \o ArgumentWord(Unwrap(got) - Unwrap(expected))
            \o " to match the expected signature."
    ELSE "Ensure the correct number of arguments are passed to ^" \o red_bold(fn_name) \o "^."

\* The suggestion of the TS2554 handler for the function name and the two
\* counts.
MissingParametersSuggestion(fn_name, expected, got) ==
    Some(Suggestion(<<MissingParametersLine(fn_name, expected, got)>>,
                    Some(MissingParametersHelp(fn_name, expected, got)),
                    None))

\* C27: suggest_missing_parameters returns a suggestion for every message:
\* with both counts parsed and fewer arguments got than expected it names
\* both and its help is to add the missing ones, with more got than
\* expected its help is to remove the extra ones, the help saying
\* "argument" exactly for a difference of one, and otherwise it is the
\* generic text; a help that names a difference was computed from a
\* subtraction that does not go below zero.
C27_MissingParameters ==
    callee = "suggest_missing_parameters" =>
       /\ returned = MissingParametersSuggestion(
                        MissingParametersFnName(
                           TsError("a.ts", 1, 1, Known("MissingParameters"), given.msg),
                           given.toks),
                        CountExpected(given.msg, " argument"),
                        CountGot(given.msg))
       /\ Contains(Unwrap(Unwrap(returned).help), "Add the missing")
             => IsSome(checked_sub(Unwrap(CountExpected(given.msg, " argument")),
                                   Unwrap(CountGot(given.msg))))
       /\ Contains(Unwrap(Unwrap(returned).help), "Remove the extra")
             => IsSome(checked_sub(Unwrap(CountGot(given.msg)),
                                   Unwrap(CountExpected(given.msg, " argument"))))

\* suggest_missing_parameters has read one argument more than expected
\* and helps with the singular.
C27_Witness ==
    /\ callee = "suggest_missing_parameters"
    /\ given.msg = "Expected 2 arguments, but got 3."
    /\ given.toks = Tokenize("f(a)")
    /\ returned = Some(Suggestion(
          <<"Function ^" \o red_bold("f") \o "^ expects 2 arguments but received 3.">>,
          Some("Remove the extra argument to match the expected signature."),
          None))

-----------------------------------------------------------------------------
(* The lines that parse takes *)

\* C28: a line F(L,C): error CODE: MSG, the path F with a parenthesis or
\* without and the message MSG with ": " or without, is never passed over
\* by either parse, and error::parse gives the diagnostic with the file F,
\* the line L, the column C, the classified CODE and the message MSG.
C28_ParseOfForm ==
    \A f \in {"a.ts", "src/(app)/page.ts"} :
    \A l \in 0..MaxLine : \A c \in 0..MaxColumn :
    \A m \in {"Type 'string' is not assignable to type 'number'.",
              "'const' declarations: must be initialized."} :
    \A codeText \in {"TS2322", "TS1155"} :
        tscLine = DiagnosticLine(f, Decimal(l), Decimal(c), codeText, m) =>
           /\ dpc \notin {"skipped", "passed"}
           /\ dpc \in {"suggest", "suggested"}
                 => err = Some(TsError(f, l, c, from_str(codeText), m))

-----------------------------------------------------------------------------
(* The number of an unsupported code *)

\* C29: a code string that is "TS" and a decimal number, and that is no
\* code of the table, is classified as Unsupported with that number.
C29_NumberPreserved ==
    (/\ cpc = "var"
     /\ hops >= 1
     /\ Len(code) > 2
     /\ SubSeq(code, 1, 2) = "TS"
     /\ AllDigits(From(code, 3))
     /\ code \notin DOMAIN FromStrTable)
    => variant = Some(Unsupported(NumeralValue(From(code, 3))))

-----------------------------------------------------------------------------
(* The line loop of parse_tsc_output (src/src/main.rs): every line of the  *)
(* compiler's output is parsed; a diagnostic takes the indented lines that *)
(* follow it into its message, is formatted and printed, and the loop goes *)
(* on after them; the total is printed at the end.                         *)

\* Most lines of compiler output the loop is run on.
MaxOutputLines == 3

\* Lines of compiler output: diagnostics (one at column 0), indented lines
\* (one of which has the form of a diagnostic), and others.
OutputLines ==
    { "a.ts(1,1): error TS2322: Type 'string' is not assignable to type 'number'.",
      "a.ts(1,0): error TS1155: 'const' declarations must be initialized.",
      "  Type 'string' is not assignable to type 'number'. ",
      "  a.ts(2,1): error TS2322: nested",
      " note",
      "" }

\* The outputs of the compiler, as lines.
RECURSIVE LineSeqs(_)
LineSeqs(n) ==
    IF n = 0 THEN { <<>> }
    ELSE { Append(q, l) : q \in LineSeqs(n - 1), l \in OutputLines }

Outputs == UNION { LineSeqs(n) : n \in 1..MaxOutputLines }

\* str::starts_with
starts_with(s, prefix) ==
    Len(s) >= Len(prefix) /\ SubSeq(s, 1, Len(prefix)) = prefix

\* std::fs::read_to_string(file).unwrap_or_default(): the file system holds
\* a.ts alone.
read_to_string(file) == IF file = "a.ts" THEN diskText ELSE ""

\* Whether formatter::fmt computes err.column - 1 below zero.
FmtUnderflows(e) ==
    /\ read_to_string(e.file) # ""
    /\ SpanUnderflows(read_to_string(e.file), Tokenize(read_to_string(e.file)), e)

\* What formatter::fmt(e) can return (the suggestion lines of an object
\* mismatch come in the order the hash map gives).
FmtOutputs(e) ==
    IF read_to_string(e.file) = "" THEN { SimpleOutput(e) }
    ELSE { ReportOutput(e,
                        ComputedSpan(read_to_string(e.file),
                                     Tokenize(read_to_string(e.file)), e),
                        build(e, Tokenize(read_to_string(e.file)), order)) :
             order \in IterationOrders(ExpectedKeys(e.message)) }

\* A line of text on the standard output.
TextOutput(text) == Output(text, None, "", "", <<>>, "")

\* The last line printed.
TotalOutput(n) == TextOutput(Format("\nTotal errors: {}", <<red_bold(Decimal(n))>>))

LoopInit ==
    /\ TokIdle
    /\ CodeIdle
    /\ FnIdle
    /\ tscLine = ""
    /\ diskText \in SourceTexts
    /\ colorize = FALSE
    /\ err = None
    /\ span = None
    /\ suggestion = None
    /\ report = None
    /\ lookups = <<>>
    /\ underflow = FALSE
    /\ dpc = "idle"
    /\ lines \in Outputs
    /\ index = 0
    /\ indented_line = 0
    /\ parsed = None
    /\ counter = 0
    /\ found_error = FALSE
    /\ stdout = <<>>
    /\ lpc = "while"

\* An iteration of the loop at a line parser::parse gives None for.
PassLine ==
    /\ lpc = "while"
    /\ index < Len(lines)
    /\ ~IsSome(parser_parse(lines[index + 1]))
    /\ index' = index + 1
    /\ UNCHANGED <<lines, indented_line, parsed, counter, found_error, stdout, lpc>>
    /\ UNCHANGED <<tokVars, codeVars, diagVars, fnVars>>

\* An iteration at a line that parses as a diagnostic, up to the loop over
\* the continuation lines.
ParseLine ==
    /\ lpc = "while"
    /\ index < Len(lines)
    /\ IsSome(parser_parse(lines[index + 1]))
    /\ parsed' = parser_parse(lines[index + 1])
    /\ found_error' = TRUE
    /\ counter' = counter + 1
    /\ indented_line' = index + 1
    /\ lpc' = "indented"
    /\ UNCHANGED <<lines, index, stdout>>
    /\ UNCHANGED <<tokVars, codeVars, diagVars, fnVars>>

\* An iteration of the loop over the continuation lines.
CollectContinuation ==
    /\ lpc = "indented"
    /\ indented_line < Len(lines)
    /\ starts_with(lines[indented_line + 1], "  ")
    /\ parsed' = Some([Unwrap(parsed) EXCEPT
                          !.message = @ \o "\n" \o Trim(lines[indented_line + 1])])
    /\ indented_line' = indented_line + 1
    /\ UNCHANGED <<lines, index, counter, found_error, stdout, lpc>>
    /\ UNCHANGED <<tokVars, codeVars, diagVars, fnVars>>

\* The continuation lines are over: println!("{}", formatter::fmt(&parsed))
\* and i = indented_line. When fmt computes err.column - 1 below zero, a
\* build without overflow checks goes on with the wrapped value.
PrintFormatted ==
    /\ lpc = "indented"
    /\ ~(indented_line < Len(lines) /\ starts_with(lines[indented_line + 1], "  "))
    /\ \E out \in FmtOutputs(Unwrap(parsed)) : stdout' = Append(stdout, out)
    /\ index' = indented_line
    /\ parsed' = None
    /\ lpc' = "while"
    /\ UNCHANGED <<lines, indented_line, counter, found_error>>
    /\ UNCHANGED <<tokVars, codeVars, diagVars, fnVars>>

\* The same point in a build with overflow checks, when fmt computes
\* err.column - 1 below zero: the program panics.
FmtPanic ==
    /\ lpc = "indented"
    /\ ~(indented_line < Len(lines) /\ starts_with(lines[indented_line + 1], "  "))
    /\ FmtUnderflows(Unwrap(parsed))
    /\ lpc' = "panicked"
    /\ UNCHANGED <<lines, index, indented_line, parsed, counter, found_error, stdout>>
    /\ UNCHANGED <<tokVars, codeVars, diagVars, fnVars>>

\* After the loop: the note when no line was a diagnostic, and the total.
PrintTotal ==
    /\ lpc = "while"
    /\ ~(index < Len(lines))
    /\ stdout' = (IF found_error THEN stdout
                  ELSE Append(stdout, TextOutput("No errors were emitted.")))
                 \o <<TotalOutput(counter)>>
    /\ lpc' = "returned"
    /\ UNCHANGED <<lines, index, indented_line, parsed, counter, found_error>>
    /\ UNCHANGED <<tokVars, codeVars, diagVars, fnVars>>

LoopNext ==
    \/ PassLine
    \/ ParseLine
    \/ CollectContinuation
    \/ PrintFormatted
    \/ FmtPanic
    \/ PrintTotal

LoopSpec == LoopInit /\ [][LoopNext]_vars

-----------------------------------------------------------------------------
(* Properties of the line loop *)

\* The 1-based line k is indented.
Indented(q, k) == starts_with(q[k], "  ")

\* Whether the loop takes the 1-based line k as the header of a diagnostic:
\* the line parses, and no header before it has only indented lines between
\* itself and k.
RECURSIVE IsHeader(_, _)
IsHeader(q, k) ==
    /\ IsSome(parser_parse(q[k]))
    /\ ~\E h \in 1..(k - 1) :
          /\ IsHeader(q, h)
          /\ \A j \in (h + 1)..k : Indented(q, j)

Headers(q) == { k \in 1..Len(q) : IsHeader(q, k) }

\* The continuation lines of the header h: the indented lines that follow
\* it without a gap.
Continuations(q, h) ==
    { k \in (h + 1)..Len(q) : \A j \in (h + 1)..k : Indented(q, j) }

\* The header's message followed by "\n" and the trimmed text of each of
\* the lines h + 1 .. last.
RECURSIVE Folded(_, _, _)
Folded(q, h, last) ==
    IF last <= h THEN Unwrap(parser_parse(q[h])).message
    ELSE Folded(q, h, last - 1) \o "\n" \o Trim(q[last])

\* The diagnostic of the header h as it is to be formatted.
Assembled(q, h) ==
    [Unwrap(parser_parse(q[h])) EXCEPT
        !.message = Folded(q, h, h + Cardinality(Continuations(q, h)))]

\* The headers among the first n lines, in order.
RECURSIVE HeadersUpTo(_, _)
HeadersUpTo(q, n) ==
    IF n = 0 THEN <<>>
    ELSE IF IsHeader(q, n) THEN Append(HeadersUpTo(q, n - 1), n)
    ELSE HeadersUpTo(q, n - 1)

\* C30, each line once: a step of the loop takes up the line it is at and
\* no other: a line that does not parse moves the loop on by one, a header
\* is counted once and the continuation loop starts behind it, each
\* continuation line is taken once and in order, and after the diagnostic
\* is printed the loop is at the first line behind its continuation lines.
C30_EachLineOnce ==
    [][/\ PassLine => index' = index + 1 /\ ~IsHeader(lines, index + 1)
       /\ ParseLine => /\ IsHeader(lines, index + 1)
                       /\ counter' = counter + 1
                       /\ indented_line' = index + 1
       /\ CollectContinuation => /\ indented_line + 1 \in Continuations(lines, index + 1)
                                 /\ indented_line' = indented_line + 1
       /\ PrintFormatted => /\ index' = index + 1 + Cardinality(Continuations(lines, index + 1))
                            /\ index' > index
                            /\ Len(stdout') = Len(stdout) + 1
                            /\ stdout'[Len(stdout')] \in FmtOutputs(Assembled(lines, index + 1))]_vars

\* C30, what is printed: when parse_tsc_output has returned, the standard
\* output holds one formatted diagnostic for each header, in the order of
\* the lines and with the folded message, then the note if there was no
\* header, then the total, which is the number of diagnostics formatted.
C30_PrintedInOrder ==
    lpc = "returned" =>
        LET heads == HeadersUpTo(lines, Len(lines))
            notes == IF heads = <<>> THEN 1 ELSE 0
        IN  /\ index = Len(lines)
            /\ counter = Len(heads)
            /\ Len(stdout) = Len(heads) + notes + 1
            /\ \A j \in 1..Len(heads) : stdout[j] \in FmtOutputs(Assembled(lines, heads[j]))
            /\ notes = 1 => stdout[1] = TextOutput("No errors were emitted.")
            /\ stdout[Len(stdout)] = TotalOutput(Len(heads))

\* A state in which a diagnostic with two continuation lines, one of them
\* of the form of a diagnostic, has been printed with the folded message
\* and the total 1.
C30_FoldedWitness ==
    /\ lpc = "returned"
    /\ diskText = ""
    /\ lines = << "a.ts(1,1): error TS2322: Type 'string' is not assignable to type 'number'.",
                  "  Type 'string' is not assignable to type 'number'. ",
                  "  a.ts(2,1): error TS2322: nested" >>
    /\ counter = 1
    /\ Len(stdout) = 2
    /\ stdout[1] = SimpleOutput(
           [Unwrap(parser_parse(lines[1])) EXCEPT
               !.message = "Type 'string' is not assignable to type 'number'."
                           \o "\nType 'string' is not assignable to type 'number'."
                           \o "\na.ts(2,1): error TS2322: nested"])

\* The total has been printed and is the number of diagnostics formatted.
TotalPrinted ==
    /\ lpc = "returned"
    /\ stdout # <<>>
    /\ stdout[Len(stdout)] = TotalOutput(Len(HeadersUpTo(lines, Len(lines))))
    /\ Len(stdout) = Len(HeadersUpTo(lines, Len(lines)))
                     + (IF found_error THEN 1 ELSE 2)

\* The steps the loop can still take at most: two for each line not yet
\* taken up, and the step that leaves the loop or prints the diagnostic.
StepsLeft ==
    CASE lpc = "while" -> 2 * (Len(lines) - index) + 1
      [] lpc = "indented" -> 2 * (Len(lines) - indented_line) + 2
      [] OTHER -> 0

\* C30, no step is repeated: every step of the loop leaves fewer steps to
\* take, so the loop makes at most 2 * lines.len() + 1 steps.
C30_EveryStepAdvances ==
    [][StepsLeft' < StepsLeft /\ StepsLeft' >= 0]_vars

\* C30: the line loop of parse_tsc_output terminates with the total printed,
\* the number of diagnostics formatted: at any moment the loop is either
\* still running (and then has a next step) or has printed that total.
C30_LoopCompletes ==
    \/ lpc = "while"
    \/ lpc = "indented"
    \/ TotalPrinted

\* C30: a panic of formatter::fmt leaves a diagnostic counted that was
\* never printed, and no total.
C30_PanicLosesTotal ==
    lpc = "panicked" =>
        /\ counter = Len(stdout) + 1
        /\ FmtUnderflows(Unwrap(parsed))
        /\ \A j \in 1..Len(stdout) : stdout[j] # TotalOutput(counter)

\* C30, where fmt does not compute a column below zero: the loop completes.
C30_CompletesWithoutUnderflow ==
    (\A k \in 1..Len(lines) :
        IsSome(parser_parse(lines[k])) => Unwrap(parser_parse(lines[k])).column >= 1)
    => C30_LoopCompletes

====
